---- MODULE Spec2Model ----
(***************************************************************************)
(* A model of the rustfall falling-sand engine: the grid of pixel          *)
(* containers, the material state machine (interact / update), the         *)
(* density-based move legality, the sequential band resolver               *)
(* (VirtualBox::tick) and the two-phase banded scheduler of                *)
(* Sandbox::exec_pixels_movement.                                          *)
(*                                                                         *)
(* Randomness (thread_rng) is a nondeterministic choice: the band offset   *)
(* is drawn with \E, and every per-cell direction-list sample makes the    *)
(* band resolver set-valued.  The rayon workers of one phase are separate  *)
(* BandTick steps that may be taken in any order.                          *)
(***************************************************************************)
EXTENDS Integers, Sequences, FiniteSets, TLC

VARIABLES
    width,      \* Sandbox.width
    height,     \* Sandbox.height
    pixels,     \* Sandbox.pixels : pixels[x][y] is a pixel container
    ltr,        \* Sandbox.ltr, the horizontal scan direction of this tick
    pc,         \* position inside tick(): idle, movement, phase1, phase2, panicked
    offset,     \* the band offset sampled by exec_pixels_movement
    pending,    \* bands of the current phase whose worker has not run yet
    op,         \* history: the operation the last step belongs to
    hist,       \* history: the grids at the start of the ticks since the last placement
    ticks,      \* history: number of ticks started
    placed      \* history: number of placement calls made

vars == <<width, height, pixels, ltr, pc, offset, pending, op, hist, ticks, placed>>

\* sandbox/sandbox.rs:8
VIRTUAL_COLUMNIZED_WIDTH == 5

\* Bounds of the exploration.
MaxPlace == 1
MaxTicks == 2
MaxHeatTicks == 6
\* The widest grid of the band partitions.
MaxBandWidth == 46
\* The ticks of the cooling scenarios.
MaxCoolTicks == 50
\* The ticks of the melting scenarios.
MaxMeltTicks == 12
\* The ticks of the burning scenarios.
MaxBurnTicks == 230
\* The ticks of the spreading scenarios.
MaxSpreadTicks == 236
\* The ticks of the fire scenarios.
MaxFireTicks == 61

None == << >>
Some(v) == << v >>
Min(a, b) == IF a < b THEN a ELSE b
U8(n) == n % 256
\* F applied to the value of v (v is evaluated once).
With(v, F(_)) == CHOOSE r \in {F(x) : x \in {v}} : TRUE

(***************************************************************************)
(* Materials (PixelInstance) and their default values.                     *)
(***************************************************************************)
Instance(n, t, l, b) == [name |-> n, temp |-> t, life |-> l, burn |-> b]

Sand == Instance("Sand", 0, 0, FALSE)
Rock == Instance("Rock", 0, 0, FALSE)
EternalFire == Instance("EternalFire", 0, 0, FALSE)
Water_default == Instance("Water", 20, 0, FALSE)
Steam_default == Instance("Steam", 200, 0, FALSE)
Ice_default == Instance("Ice", 0, 0, FALSE)
Wood_default == Instance("Wood", 0, 225, FALSE)
Fire_default == Instance("Fire", 0, 60, FALSE)
Void_default == Instance("Void", 0, 0, FALSE)

Materials == {Sand, Rock, EternalFire, Water_default, Steam_default, Ice_default,
              Wood_default, Fire_default, Void_default}

Water_is_burning(w) == w.temp >= 30
\* A freezing test that lets a Water of exactly 10 degrees stay liquid.
Water_is_frozen_below(w) == w.temp < 10

Water_is_frozen(w) == w.temp <= 10
Wood_is_burning(w) == w.temp >= 99
Ice_is_burning(i) == i.temp >= 99

PixelType(c, d) == [cat |-> c, density |-> d]

pixel_type(i) ==
    CASE i.name = "Steam" -> PixelType("Gas", -10)
      [] i.name = "Fire" -> PixelType("Gas", -1)
      [] i.name = "Water" -> PixelType("Liquid", 10)
      [] i.name = "Sand" -> PixelType("Solid", 50)
      [] i.name = "Wood" -> IF i.life <= 30 THEN PixelType("Solid", 9) ELSE PixelType("Wall", 0)
      [] i.name \in {"Rock", "Ice", "EternalFire"} -> PixelType("Wall", 0)
      [] OTHER -> PixelType("Void", 0)

density(t) == IF t.cat \in {"Gas", "Liquid", "Solid"} THEN Some(t.density) ELSE None

Water_interact(self, target) ==
    CASE target.name \in {"Fire", "EternalFire"} ->
            IF ~Water_is_burning(self) THEN [self EXCEPT !.temp = U8(@ + 2)] ELSE self
      [] target.name = "Wood" ->
            IF Wood_is_burning(target) /\ ~Water_is_burning(self)
            THEN [self EXCEPT !.temp = U8(@ + 2)] ELSE self
      [] target.name = "Ice" ->
            IF ~Water_is_frozen(self) THEN [self EXCEPT !.temp = U8(@ - 2)] ELSE self
      [] OTHER -> self

\* A Steam that only other Steam cools.
Steam_interact_steam_only(self, target) ==
    IF target.name = "Steam" /\ self.temp > 0 THEN [self EXCEPT !.temp = U8(@ - 1)] ELSE self

Steam_interact(self, target) ==
    CASE target.name \in {"Water", "Steam"} ->
            IF self.temp > 0 THEN [self EXCEPT !.temp = U8(@ - 1)] ELSE self
      [] target.name = "Ice" ->
            IF self.temp > 1 THEN [self EXCEPT !.temp = U8(@ - 2)]
            ELSE [self EXCEPT !.temp = 0]
      [] OTHER -> self

\* An Ice that Steam does not warm.
Ice_interact_no_steam(self, target) ==
    CASE target.name \in {"Fire", "EternalFire"} ->
            IF ~Ice_is_burning(self) THEN [self EXCEPT !.temp = U8(@ + 20)] ELSE self
      [] target.name = "Water" ->
            IF ~Ice_is_burning(self) THEN [self EXCEPT !.temp = U8(@ + 10)] ELSE self
      [] OTHER -> self

Ice_interact(self, target) ==
    CASE target.name \in {"Fire", "EternalFire"} ->
            IF ~Ice_is_burning(self) THEN [self EXCEPT !.temp = U8(@ + 20)] ELSE self
      [] target.name = "Water" ->
            IF ~Ice_is_burning(self) THEN [self EXCEPT !.temp = U8(@ + 10)] ELSE self
      [] target.name = "Steam" ->
            IF ~Ice_is_burning(self) THEN [self EXCEPT !.temp = U8(@ + 15)] ELSE self
      [] OTHER -> self

\* A Wood that a burning Wood beside it does not heat.
Wood_interact_no_spread(self, target) ==
    CASE target.name = "Water" ->
            IF Wood_is_burning(self) THEN [self EXCEPT !.temp = U8(@ - 20)] ELSE self
      [] target.name = "Ice" ->
            IF Wood_is_burning(self) THEN [self EXCEPT !.temp = U8(@ - 30)] ELSE self
      [] target.name \in {"Fire", "EternalFire"} ->
            IF ~Wood_is_burning(self) THEN [self EXCEPT !.temp = U8(@ + 20)] ELSE self
      [] OTHER -> self

\* A Wood that Water and Ice cool whether it burns or not.
Wood_interact_unguarded(self, target) ==
    CASE target.name = "Water" -> [self EXCEPT !.temp = U8(@ - 20)]
      [] target.name = "Ice" -> [self EXCEPT !.temp = U8(@ - 30)]
      [] target.name \in {"Fire", "EternalFire"} ->
            IF ~Wood_is_burning(self) THEN [self EXCEPT !.temp = U8(@ + 20)] ELSE self
      [] target.name = "Wood" ->
            IF Wood_is_burning(target) /\ ~Wood_is_burning(self)
            THEN [self EXCEPT !.temp = U8(@ + 20)] ELSE self
      [] OTHER -> self

Wood_interact(self, target) ==
    CASE target.name = "Water" ->
            IF Wood_is_burning(self) THEN [self EXCEPT !.temp = U8(@ - 20)] ELSE self
      [] target.name = "Ice" ->
            IF Wood_is_burning(self) THEN [self EXCEPT !.temp = U8(@ - 30)] ELSE self
      [] target.name \in {"Fire", "EternalFire"} ->
            IF ~Wood_is_burning(self) THEN [self EXCEPT !.temp = U8(@ + 20)] ELSE self
      [] target.name = "Wood" ->
            IF Wood_is_burning(target) /\ ~Wood_is_burning(self)
            THEN [self EXCEPT !.temp = U8(@ + 20)] ELSE self
      [] OTHER -> self

\* A Void that any neighbour ignites, not only EternalFire.
Void_interact_any(self, target) == [self EXCEPT !.burn = TRUE]

Void_interact(self, target) ==
    IF target.name = "EternalFire" THEN [self EXCEPT !.burn = TRUE] ELSE self

\* PixelInteract::interact, dispatched on the variant of self.
interact(self, target) ==
    CASE self.name = "Water" -> Water_interact(self, target)
      [] self.name = "Steam" -> Steam_interact(self, target)
      [] self.name = "Ice" -> Ice_interact(self, target)
      [] self.name = "Wood" -> Wood_interact(self, target)
      [] self.name = "Void" -> Void_interact(self, target)
      [] OTHER -> self

\* PixelFundamental::update: the instance as update() leaves it, and the
\* replacement it returns (None: no change).
Updated(s, n) == [self |-> s, new |-> n]

\* A Water that never boils: only the freezing branch is left.
Water_update_no_steam(self) ==
    IF Water_is_frozen(self) THEN Updated(self, Some(Ice_default))
    ELSE Updated(self, None)

Water_update(self) ==
    IF Water_is_burning(self) THEN Updated(self, Some(Steam_default))
    ELSE IF Water_is_frozen(self) THEN Updated(self, Some(Ice_default))
    ELSE Updated(self, None)

Steam_update(self) ==
    IF self.temp < 10 THEN Updated(self, Some(Water_default)) ELSE Updated(self, None)

Ice_update(self) ==
    IF Ice_is_burning(self) THEN Updated(self, Some(Water_default)) ELSE Updated(self, None)

\* A Wood that loses life in every tick, burning or not.
Wood_update_always(self) ==
    LET s == IF self.life > 0 THEN [self EXCEPT !.life = U8(@ - 1)] ELSE self
    IN IF s.life = 0 THEN Updated(s, Some(Void_default)) ELSE Updated(s, None)

Wood_update(self) ==
    LET s == IF Wood_is_burning(self) /\ self.life > 0
             THEN [self EXCEPT !.life = U8(@ - 1)] ELSE self
    IN IF s.life = 0 THEN Updated(s, Some(Void_default)) ELSE Updated(s, None)

\* A Fire that is replaced one tick late: it is kept with life 0 first.
Fire_update_late(self) ==
    IF self.life = 0 THEN Updated(self, Some(Void_default))
    ELSE Updated([self EXCEPT !.life = U8(@ - 1)], None)

Fire_update(self) ==
    LET s == [self EXCEPT !.life = U8(@ - 1)]
    IN IF s.life = 0 THEN Updated(s, Some(Void_default)) ELSE Updated(s, None)

\* A Void whose update never ignites: the burn flag stays on the Void.
Void_update_never(self) == Updated(self, None)

Void_update(self) ==
    IF self.burn THEN Updated(self, Some(Fire_default)) ELSE Updated(self, None)

update(self) ==
    CASE self.name = "Water" -> Water_update(self)
      [] self.name = "Steam" -> Steam_update(self)
      [] self.name = "Ice" -> Ice_update(self)
      [] self.name = "Wood" -> Wood_update(self)
      [] self.name = "Fire" -> Fire_update(self)
      [] self.name = "Void" -> Void_update(self)
      [] OTHER -> Updated(self, None)

(***************************************************************************)
(* Pixel containers and the grid.  swaps is a history field: the number of *)
(* swaps the container took part in during the current movement pass.      *)
(***************************************************************************)
Container(i, m, s) == [pixel |-> i, is_moved |-> m, swaps |-> s]
PixelContainer_new(i) == Container(i, FALSE, 0)
PixelContainer_default == PixelContainer_new(Void_default)
mark_is_moved(p, flag) == [p EXCEPT !.is_moved = flag]

Sandbox_new(w, h) == [x \in 0..(w - 1) |-> [y \in 0..(h - 1) |-> PixelContainer_default]]

\* A SandboxControl implementor: its matrix, width() and height().
Control(m, w, h) == [matrix |-> m, width |-> w, height |-> h]

get_pixel(ctrl, cord) ==
    IF cord[1] \in DOMAIN ctrl.matrix /\ cord[2] \in DOMAIN ctrl.matrix[cord[1]]
    THEN Some(ctrl.matrix[cord[1]][cord[2]]) ELSE None

\* A lookup that flattens the coordinate to x + y * width, as an engine with
\* one flat vector does: a column past the last one lands in the next row.
get_pixel_mut_flat(ctrl, cord) ==
    LET index == cord[1] + cord[2] * ctrl.width
    IN IF index < ctrl.width * ctrl.height
       THEN Some(<<index % ctrl.width, index \div ctrl.width>>) ELSE None

\* get_pixel_mut: the mutable reference is the place of the cell it points at.
get_pixel_mut(ctrl, cord) ==
    IF cord[1] \in DOMAIN ctrl.matrix /\ cord[2] \in DOMAIN ctrl.matrix[cord[1]]
    THEN Some(cord) ELSE None

is_coordinate_in_bound(ctrl, cord) == cord[1] < ctrl.width /\ cord[2] < ctrl.height

Directions == {"Up", "Down", "Left", "Right", "UpLeft", "UpRight", "DownLeft", "DownRight"}

\* A lookup without the edge guards: the step is taken whatever the cell.
get_neighbour_coordinates_unguarded(ctrl, cord, dir) ==
    LET x == cord[1]
        y == cord[2]
    IN CASE dir = "Up" -> Some(<<x, y - 1>>)
         [] dir = "Down" -> Some(<<x, y + 1>>)
         [] dir = "Left" -> Some(<<x - 1, y>>)
         [] dir = "Right" -> Some(<<x + 1, y>>)
         [] dir = "UpLeft" -> Some(<<x - 1, y - 1>>)
         [] dir = "UpRight" -> Some(<<x + 1, y - 1>>)
         [] dir = "DownLeft" -> Some(<<x - 1, y + 1>>)
         [] dir = "DownRight" -> Some(<<x + 1, y + 1>>)
         [] OTHER -> None

get_neighbour_coordinates(ctrl, cord, dir) ==
    LET x == cord[1]
        y == cord[2]
        is_not_on_top == y > 0
        is_not_on_bottom == y < ctrl.height - 1
        is_not_on_left == x > 0
        is_not_on_right == x < ctrl.width - 1
    IN CASE dir = "Up" /\ is_not_on_top -> Some(<<x, y - 1>>)
         [] dir = "Down" /\ is_not_on_bottom -> Some(<<x, y + 1>>)
         [] dir = "Left" /\ is_not_on_left -> Some(<<x - 1, y>>)
         [] dir = "Right" /\ is_not_on_right -> Some(<<x + 1, y>>)
         [] dir = "UpLeft" /\ is_not_on_top /\ is_not_on_left -> Some(<<x - 1, y - 1>>)
         [] dir = "UpRight" /\ is_not_on_top /\ is_not_on_right -> Some(<<x + 1, y - 1>>)
         [] dir = "DownLeft" /\ is_not_on_bottom /\ is_not_on_left -> Some(<<x - 1, y + 1>>)
         [] dir = "DownRight" /\ is_not_on_bottom /\ is_not_on_right -> Some(<<x + 1, y + 1>>)
         [] OTHER -> None

\* Option<(Coordinate, &PixelContainer)>: the neighbour's coordinate and container.
get_neighbour_pixel(ctrl, cord, dir) ==
    With(get_neighbour_coordinates(ctrl, cord, dir),
         LAMBDA nc : IF nc = None THEN None
                     ELSE With(get_pixel(ctrl, nc[1]),
                               LAMBDA p : IF p = None THEN None
                                          ELSE Some(<<nc[1], p[1]>>)))

\* A swap that copies the first container over the second and keeps it.
swap_pixels_copy(ctrl, cord1, cord2) ==
    LET p1 == get_pixel(ctrl, cord1)
        p2 == get_pixel(ctrl, cord2)
    IN IF p1 # None /\ p2 # None
       THEN [ctrl.matrix EXCEPT ![cord2[1]][cord2[2]] = [p1[1] EXCEPT !.swaps = @ + 1]]
       ELSE ctrl.matrix

\* The matrix after swap_pixels; the history field counts the swap for both.
swap_pixels(ctrl, cord1, cord2) ==
    LET p1 == get_pixel(ctrl, cord1)
        p2 == get_pixel(ctrl, cord2)
    IN IF p1 # None /\ p2 # None
       THEN LET a == [p1[1] EXCEPT !.swaps = @ + 1]
                b == [p2[1] EXCEPT !.swaps = @ + 1]
                m1 == [ctrl.matrix EXCEPT ![cord1[1]][cord1[2]] = b]
            IN [m1 EXCEPT ![cord2[1]][cord2[2]] = a]
       ELSE ctrl.matrix

(***************************************************************************)
(* Move legality and the per-category candidate directions.                *)
(***************************************************************************)
\* Legality that lets a source push a Wall aside as if it were Void.
can_swap_with_wall(self, target) ==
    LET d == density(pixel_type(self.pixel))
        tt == pixel_type(target.pixel)
    IN IF d = None THEN FALSE
       ELSE IF target.is_moved THEN FALSE
       ELSE CASE tt.cat \in {"Solid", "Gas", "Liquid"} ->
                    IF d[1] < 0 THEN d[1] < tt.density ELSE d[1] > tt.density
              [] OTHER -> TRUE

\* Legality that lets every source sink: the heavier source moves, a gas too.
can_swap_with_no_reverse(self, target) ==
    LET d == density(pixel_type(self.pixel))
        tt == pixel_type(target.pixel)
    IN IF d = None THEN FALSE
       ELSE IF target.is_moved THEN FALSE
       ELSE CASE tt.cat \in {"Solid", "Gas", "Liquid"} -> d[1] > tt.density
              [] tt.cat = "Wall" -> FALSE
              [] OTHER -> TRUE

\* Legality that does not look at the target's moved flag.
can_swap_with_moved(self, target) ==
    LET d == density(pixel_type(self.pixel))
    IN IF d = None THEN FALSE
       ELSE LET reverse == d[1] < 0
                tt == pixel_type(target.pixel)
            IN CASE tt.cat \in {"Solid", "Gas", "Liquid"} ->
                       IF d[1] = tt.density THEN FALSE
                       ELSE IF d[1] > tt.density /\ ~reverse THEN TRUE
                       ELSE IF ~(d[1] > tt.density) /\ reverse THEN TRUE
                       ELSE FALSE
                 [] tt.cat = "Wall" -> FALSE
                 [] OTHER -> TRUE

can_swap_with(self, target) ==
    With(<<density(pixel_type(self.pixel)), pixel_type(target.pixel), target.is_moved>>,
         LAMBDA v :
            LET d == v[1]
                tt == v[2]
                reverse == d[1] < 0
            IN IF d = None THEN FALSE
               ELSE IF v[3] THEN FALSE
               ELSE CASE tt.cat \in {"Solid", "Gas", "Liquid"} ->
                           IF d[1] = tt.density THEN FALSE
                           ELSE IF d[1] > tt.density /\ ~reverse THEN TRUE
                           ELSE IF ~(d[1] > tt.density) /\ reverse THEN TRUE
                           ELSE FALSE
                      [] tt.cat = "Wall" -> FALSE
                      [] OTHER -> TRUE)

can_move_to_dir(self, cord, dir, ctrl) ==
    IF density(pixel_type(self.pixel)) = None THEN FALSE
    ELSE With(get_neighbour_pixel(ctrl, cord, dir),
              LAMBDA n : IF n = None THEN FALSE ELSE can_swap_with(self, n[1][2]))

\* The pools the rng samples one list from.
\* A pool whose lists try a diagonal before Down.
down_directions_diagonal_first ==
    {<<"DownLeft", "Down", "DownRight">>, <<"DownRight", "Down", "DownLeft">>}

down_directions == {<<"Down", "DownLeft", "DownRight">>, <<"Down", "DownRight", "DownLeft">>}

horizontal_directions == {<<"Left", "Right">>, <<"Right", "Left">>}

\* A pool for the Gas that holds all eight directions in some order, Down
\* and the two lower diagonals too.
up_directions_shuffled ==
    {<<"Down", "DownLeft", "DownRight", "Up", "UpLeft", "UpRight", "Left", "Right">>,
     <<"Up", "Left", "Down", "Right", "UpLeft", "DownRight", "UpRight", "DownLeft">>,
     <<"DownRight", "Right", "UpRight", "Up", "UpLeft", "Left", "DownLeft", "Down">>}

up_directions ==
    {<<"Up", "UpLeft", "UpRight">>, <<"Up", "UpRight", "UpLeft">>,
     <<"UpLeft", "UpRight", "Up">>, <<"UpLeft", "Up", "UpRight">>,
     <<"UpRight", "UpLeft", "Up">>, <<"UpRight", "Up", "UpLeft">>}

\* dirs.iter().find_map(|dir| self.can_move_to_dir(cord, *dir, ctrl).then(|| *dir))
find_dir(self, cord, dirs, ctrl) ==
    With({i \in 1..Len(dirs) : can_move_to_dir(self, cord, dirs[i], ctrl)},
         LAMBDA legal : IF legal = {} THEN None
                        ELSE Some(dirs[CHOOSE i \in legal : \A j \in legal : i <= j]))

\* The results the rng allows (velocity.0 is 0: nothing in the shipped movement
\* model updates it).
can_move_up(self, cord, ctrl) ==
    IF pixel_type(self.pixel).cat = "Gas"
    THEN {find_dir(self, cord, dirs, ctrl) : dirs \in up_directions}
    ELSE {None}

\* A downward search that serves a Solid only: a Liquid gets no downward move.
can_move_down_solid_only(self, cord, ctrl) ==
    IF pixel_type(self.pixel).cat = "Solid"
    THEN {find_dir(self, cord, dirs, ctrl) : dirs \in down_directions}
    ELSE {None}

can_move_down(self, cord, ctrl) ==
    IF pixel_type(self.pixel).cat \in {"Solid", "Liquid"}
    THEN {find_dir(self, cord, dirs, ctrl) : dirs \in down_directions}
    ELSE {None}

can_move_horizontal(self, cord, ctrl) ==
    IF pixel_type(self.pixel).cat \in {"Solid", "Liquid", "Gas"}
    THEN {find_dir(self, cord, dirs, ctrl) : dirs \in horizontal_directions}
    ELSE {None}

\* The first list's result, else the second list's.
or_else(first, second) == UNION {IF d # None THEN {d} ELSE second : d \in first}

\* The Option<Coordinate> results of tick_move: Gas tries the upward list and
\* then left/right, Liquid the downward list and then left/right, Solid the
\* downward list only; Wall and Void never move.
tick_move(self, cord, ctrl) ==
    LET cat == pixel_type(self.pixel).cat
        dirs == CASE cat = "Gas" ->
                        or_else(can_move_up(self, cord, ctrl), can_move_horizontal(self, cord, ctrl))
                  [] cat = "Liquid" ->
                        or_else(can_move_down(self, cord, ctrl), can_move_horizontal(self, cord, ctrl))
                  [] cat = "Solid" -> can_move_down(self, cord, ctrl)
                  [] OTHER -> {None}
    IN {IF d = None THEN None ELSE get_neighbour_coordinates(ctrl, cord, d[1]) : d \in dirs}

(***************************************************************************)
(* VirtualBox: the sequential resolver of one band.  The band is the slice *)
(* of columns it was given; coordinates are local to the slice.            *)
(***************************************************************************)
VirtualBox_new(off, vw, h, slice, l) ==
    [offset |-> off,
     virtual_width |-> Min(vw, Cardinality(DOMAIN slice) - off),
     height |-> h,
     pixels |-> slice,
     ltr |-> l]

VirtualBox_control(vb, m) == Control(m, Cardinality(DOMAIN m), vb.height)

\* The i-th coordinate visited: rows bottom-up, columns in the scan direction.
scan_cord(vb, i) ==
    LET row == (i - 1) \div vb.virtual_width
        k == (i - 1) % vb.virtual_width
    IN <<IF vb.ltr THEN vb.offset + k ELSE vb.offset + vb.virtual_width - 1 - k,
         vb.height - 1 - row>>

\* A loop body that flags the destination whatever it holds, a Void too.
visit_flag_any(vb, m, cord) ==
    LET ctrl == VirtualBox_control(vb, m)
        pixel == get_pixel(ctrl, cord)
    IN IF pixel = None THEN {m}
       ELSE IF pixel_type(pixel[1].pixel).cat = "Void" THEN {m}
       ELSE IF pixel[1].is_moved THEN {m}
       ELSE {IF nc = None THEN m
             ELSE LET m1 == [m EXCEPT ![cord[1]][cord[2]] = mark_is_moved(@, TRUE)]
                      m2 == [m1 EXCEPT ![nc[1][1]][nc[1][2]] = mark_is_moved(@, TRUE)]
                  IN swap_pixels(VirtualBox_control(vb, m2), cord, nc[1])
             : nc \in tick_move(pixel[1], cord, ctrl)}

\* A loop body that flags the source only, never the displaced material.
visit_source_only(vb, m, cord) ==
    LET ctrl == VirtualBox_control(vb, m)
        pixel == get_pixel(ctrl, cord)
    IN IF pixel = None THEN {m}
       ELSE IF pixel_type(pixel[1].pixel).cat = "Void" THEN {m}
       ELSE IF pixel[1].is_moved THEN {m}
       ELSE {IF nc = None THEN m
             ELSE LET m1 == [m EXCEPT ![cord[1]][cord[2]] = mark_is_moved(@, TRUE)]
                  IN swap_pixels(VirtualBox_control(vb, m1), cord, nc[1])
             : nc \in tick_move(pixel[1], cord, ctrl)}

\* One iteration of the loop body on matrix m: the matrices it can leave.
visit(vb, m, cord) ==
    With(<<VirtualBox_control(vb, m), get_pixel(VirtualBox_control(vb, m), cord)>>,
         LAMBDA v :
            LET ctrl == v[1]
                pixel == v[2]
            IN IF pixel = None THEN {m}
               ELSE IF pixel_type(pixel[1].pixel).cat = "Void" THEN {m}
               ELSE IF pixel[1].is_moved THEN {m}
               ELSE {IF nc = None THEN m
                     ELSE LET m1 == [m EXCEPT ![cord[1]][cord[2]] = mark_is_moved(@, TRUE)]
                              sp == m1[nc[1][1]][nc[1][2]]
                              m2 == IF pixel_type(sp.pixel).cat # "Void"
                                    THEN [m1 EXCEPT ![nc[1][1]][nc[1][2]] =
                                                       mark_is_moved(@, TRUE)]
                                    ELSE m1
                          IN swap_pixels(VirtualBox_control(vb, m2), cord, nc[1])
                     : nc \in tick_move(pixel[1], cord, ctrl)})

RECURSIVE resolve(_, _, _)
resolve(vb, ms, i) ==
    IF i > vb.height * vb.virtual_width THEN ms
    ELSE resolve(vb, UNION {visit(vb, m, scan_cord(vb, i)) : m \in ms}, i + 1)

\* The matrices VirtualBox::tick can leave in the band's slice.
VirtualBox_tick(vb) == With(vb, LAMBDA b : resolve(b, {b.pixels}, 1))

(***************************************************************************)
(* Sandbox operations.                                                     *)
(***************************************************************************)
Sandbox_control(w, h, px) == Control(px, w, h)

\* A placement that does not test the target's category.
place_pixel_unchecked(w, h, px, pixel, cord) ==
    LET p == get_pixel_mut(Sandbox_control(w, h, px), cord)
    IN IF p = None THEN px
       ELSE [px EXCEPT ![p[1][1]][p[1][2]] = PixelContainer_new(pixel)]

place_pixel(w, h, px, pixel, cord) ==
    LET p == get_pixel_mut(Sandbox_control(w, h, px), cord)
    IN IF p = None THEN px
       ELSE IF pixel_type(px[p[1][1]][p[1][2]].pixel).cat # "Void" THEN px
       ELSE [px EXCEPT ![p[1][1]][p[1][2]] = PixelContainer_new(pixel)]

\* A forced placement that refuses a non-Void target.
place_pixel_force_checked(w, h, px, pixel, cord) ==
    LET p == get_pixel_mut(Sandbox_control(w, h, px), cord)
    IN IF p = None THEN px
       ELSE IF pixel_type(px[p[1][1]][p[1][2]].pixel).cat # "Void" THEN px
       ELSE [px EXCEPT ![p[1][1]][p[1][2]] = PixelContainer_new(pixel)]

place_pixel_force(w, h, px, pixel, cord) ==
    LET p == get_pixel_mut(Sandbox_control(w, h, px), cord)
    IN IF p = None THEN px
       ELSE [px EXCEPT ![p[1][1]][p[1][2]] = PixelContainer_new(pixel)]

\* The interact calls made from the last entry of order to the first.
RECURSIVE interact_all_reversed(_, _, _, _, _)
interact_all_reversed(ctrl, cord, self, order, i) ==
    IF i > Len(order) THEN self
    ELSE LET n == get_neighbour_pixel(ctrl, cord, order[Len(order) + 1 - i])
             s == IF n = None THEN self ELSE interact(self, n[1][2].pixel)
         IN interact_all_reversed(ctrl, cord, s, order, i + 1)

\* The instance of buffer[x][y] after the interact calls of its Up, Down, Left
\* and Right neighbours, read from the grid as it was before the pass.
RECURSIVE interact_all(_, _, _, _, _)
interact_all(ctrl, cord, self, order, i) ==
    IF i > Len(order) THEN self
    ELSE With(get_neighbour_pixel(ctrl, cord, order[i]),
              LAMBDA n :
                 With(IF n = None THEN self ELSE interact(self, n[1][2].pixel),
                      LAMBDA s : interact_all(ctrl, cord, s, order, i + 1)))

\* A closure that reads the neighbours from the buffer the pass is writing,
\* not from the grid as it was before the pass.
interaction_cell_in_place(ctrl, buffer, cord) ==
    LET after == interact_all(Control(buffer, ctrl.width, ctrl.height), cord,
                              buffer[cord[1]][cord[2]].pixel,
                              <<"Up", "Down", "Left", "Right">>, 1)
        u == update(after)
    IN IF u.new # None THEN PixelContainer_new(u.new[1])
       ELSE [buffer[cord[1]][cord[2]] EXCEPT !.pixel = u.self]

\* The closure of the pass for the cell at cord: the container it leaves in
\* buffer[x][y]; the neighbours are read through ctrl, the grid before the pass.
interaction_cell(ctrl, buffer, cord) ==
    With(interact_all(ctrl, cord, buffer[cord[1]][cord[2]].pixel,
                      <<"Up", "Down", "Left", "Right">>, 1),
         LAMBDA after :
            With(update(after),
                 LAMBDA u : IF u.new # None THEN PixelContainer_new(u.new[1])
                            ELSE [buffer[cord[1]][cord[2]] EXCEPT !.pixel = u.self]))

\* The buffer after the closures of order[i], order[i+1], .. ran one after the
\* other, each writing its own cell of the buffer.
RECURSIVE interaction_in_order(_, _, _, _)
interaction_in_order(ctrl, buffer, order, i) ==
    IF i > Len(order) THEN buffer
    ELSE interaction_in_order(
            ctrl,
            [buffer EXCEPT ![order[i][1]][order[i][2]] = interaction_cell(ctrl, buffer, order[i])],
            order, i + 1)

\* Every closure ran on its own cell of the clone; the clone becomes the grid.
exec_pixels_interaction(w, h, px) ==
    LET ctrl == Sandbox_control(w, h, px)
    IN [x \in DOMAIN px |-> [y \in DOMAIN px[x] |-> interaction_cell(ctrl, px, <<x, y>>)]]

\* The columns lo .. hi-1 of the grid as a slice, and the grid with a slice put back.
slice_of(px, lo, hi) == [x \in 0..(hi - lo - 1) |-> px[lo + x]]

\* A slice put back one column to the right of where it was taken.
with_slice_misplaced(px, lo, m) ==
    [x \in DOMAIN px |-> IF x - lo - 1 \in DOMAIN m THEN m[x - lo - 1] ELSE px[x]]

with_slice(px, lo, m) ==
    [x \in DOMAIN px |-> IF x - lo \in DOMAIN m THEN m[x - lo] ELSE px[x]]

\* A band of a phase: the slice lo .. hi-1 handed to VirtualBox::new(off, vw, ..).
Band(lo, hi, off, vw) == [lo |-> lo, hi |-> hi, off |-> off, vw |-> vw]

\* Chunks that each reach one column into the chunk that follows.
chunks_overlapping(from, w, vw) ==
    LET size == VIRTUAL_COLUMNIZED_WIDTH * 4
        starts == {s \in from..(w - 1) : (s - from) % size = 0}
    IN {Band(s, Min(s + size + 1, w), VIRTUAL_COLUMNIZED_WIDTH, vw) :
          s \in {t \in starts : Min(t + size, w) - t > VIRTUAL_COLUMNIZED_WIDTH}}

\* rest.par_chunks_mut(4W).filter_map(len > W): the chunks of columns from .. w-1.
chunks(from, w, vw) ==
    LET size == VIRTUAL_COLUMNIZED_WIDTH * 4
        starts == {s \in from..(w - 1) : (s - from) % size = 0}
    IN {Band(s, Min(s + size, w), VIRTUAL_COLUMNIZED_WIDTH, vw) :
          s \in {t \in starts : Min(t + size, w) - t > VIRTUAL_COLUMNIZED_WIDTH}}

\* A phase one whose first band scans its whole slice, up to the cut.
phase_one_bands_no_margin(w, o) ==
    {Band(0, o + VIRTUAL_COLUMNIZED_WIDTH, 0, o + VIRTUAL_COLUMNIZED_WIDTH)}
      \cup chunks(o + VIRTUAL_COLUMNIZED_WIDTH, w, 2 * VIRTUAL_COLUMNIZED_WIDTH)

phase_one_bands(w, o) ==
    {Band(0, o + VIRTUAL_COLUMNIZED_WIDTH, 0, o)}
      \cup chunks(o + VIRTUAL_COLUMNIZED_WIDTH, w, 2 * VIRTUAL_COLUMNIZED_WIDTH)

phase_two_bands(w, o) ==
    {Band(0, o + VIRTUAL_COLUMNIZED_WIDTH * 3, o, VIRTUAL_COLUMNIZED_WIDTH * 2)}
      \cup chunks(o + VIRTUAL_COLUMNIZED_WIDTH * 3, w, 2 * VIRTUAL_COLUMNIZED_WIDTH)

\* The grids one band's worker can leave.
band_tick(h, px, l, b) ==
    {with_slice(px, b.lo, m) :
        m \in VirtualBox_tick(VirtualBox_new(b.off, b.vw, h, slice_of(px, b.lo, b.hi), l))}

clear_moved(px) == [x \in DOMAIN px |-> [y \in DOMAIN px[x] |-> mark_is_moved(px[x][y], FALSE)]]

\* History only: the swap counters start at 0 in every movement pass.
reset_swaps(px) == [x \in DOMAIN px |-> [y \in DOMAIN px[x] |-> [px[x][y] EXCEPT !.swaps = 0]]]

(***************************************************************************)
(* Initial grids: a new Sandbox, and grids built from it by                *)
(* place_pixel_force calls (the fixtures of the engine's tests).           *)
(***************************************************************************)
Grid(w, h, px) == [width |-> w, height |-> h, pixels |-> px]

\* The grid after the place_pixel_force calls of seq, in order.
RECURSIVE placed_all(_, _, _, _)
placed_all(w, h, px, seq) ==
    IF seq = << >> THEN px
    ELSE placed_all(w, h, place_pixel_force(w, h, px, seq[1][1], seq[1][2]), Tail(seq))

\* test_sandbox_tick2: Sand above Water on a 3x3 grid.
Tick2Fixture ==
    Grid(3, 3, placed_all(3, 3, Sandbox_new(3, 3),
                          <<<<Sand, <<1, 0>>>>, <<Water_default, <<1, 1>>>>>>))

\* test_sandbox_tick3: two Sand above a row of Water on a 3x4 grid.
Tick3Fixture ==
    Grid(3, 4, placed_all(3, 4, Sandbox_new(3, 4),
                          <<<<Sand, <<1, 1>>>>, <<Sand, <<1, 2>>>>,
                            <<Water_default, <<0, 3>>>>, <<Water_default, <<1, 3>>>>,
                            <<Water_default, <<2, 3>>>>>>))

\* The narrowest grid that takes the banded path, two rows high.
WideWidth == VIRTUAL_COLUMNIZED_WIDTH * 4 + 1
WideFixture == Grid(WideWidth, 2, Sandbox_new(WideWidth, 2))

InitialGrids == {Grid(3, 3, Sandbox_new(3, 3)), Tick2Fixture, Tick3Fixture, WideFixture}

\* The arguments the placement calls are tried with: the cells of columns 0
\* and 1 of a small grid (column 2 mirrors column 0), the cells of columns
\* W-1 and W of a wide one (a seam of the bands falls beside them), and the
\* coordinates just outside the grid: past the last column, past the last
\* row, and past both.
PlaceMaterials(w) ==
    IF w <= VIRTUAL_COLUMNIZED_WIDTH * 4
    THEN {Sand, Water_default, Steam_default, Rock, Void_default}
    ELSE {Sand, Water_default, Rock}

PlaceCords(w, h) ==
    LET xs == IF w <= VIRTUAL_COLUMNIZED_WIDTH * 4 THEN 0..1
              ELSE (VIRTUAL_COLUMNIZED_WIDTH - 1)..VIRTUAL_COLUMNIZED_WIDTH
    IN (xs \X (0..(h - 1))) \cup {<<w, 0>>, <<0, h>>, <<w, h>>}

Op(k, m, c) == [kind |-> k, pixel |-> m, cord |-> c]

Init ==
    /\ \E g \in InitialGrids :
          /\ width = g.width
          /\ height = g.height
          /\ pixels = g.pixels
    /\ ltr = TRUE
    /\ pc = "idle"
    /\ offset = 0
    /\ pending = {}
    /\ op = Op("new", Void_default, <<0, 0>>)
    /\ hist = << >>
    /\ ticks = 0
    /\ placed = 0

(***************************************************************************)
(* Actions.                                                                *)
(***************************************************************************)
PlacePixel ==
    /\ pc = "idle"
    /\ placed < MaxPlace
    /\ \E m \in PlaceMaterials(width), c \in PlaceCords(width, height) :
          /\ pixels' = place_pixel(width, height, pixels, m, c)
          /\ op' = Op("place_pixel", m, c)
    /\ placed' = placed + 1
    /\ hist' = << >>
    /\ UNCHANGED <<width, height, ltr, pc, offset, pending, ticks>>

PlacePixelForce ==
    /\ pc = "idle"
    /\ placed < MaxPlace
    /\ \E m \in PlaceMaterials(width), c \in PlaceCords(width, height) :
          /\ pixels' = place_pixel_force(width, height, pixels, m, c)
          /\ op' = Op("place_pixel_force", m, c)
    /\ placed' = placed + 1
    /\ hist' = << >>
    /\ UNCHANGED <<width, height, ltr, pc, offset, pending, ticks>>

TickOp == Op("tick", Void_default, <<0, 0>>)

\* tick(): the interaction/update pass; the movement pass follows.
ExecPixelsInteraction ==
    /\ pc = "idle"
    /\ ticks < MaxTicks
    /\ pixels' = reset_swaps(exec_pixels_interaction(width, height, pixels))
    /\ pc' = "movement"
    /\ hist' = Append(hist, pixels)
    /\ ticks' = ticks + 1
    /\ op' = TickOp
    /\ UNCHANGED <<width, height, ltr, offset, pending, placed>>

\* exec_pixels_movement on a grid of at most 4W columns: one band over the
\* whole grid and an early return; tick() then flips ltr.
MovementUnbanded ==
    /\ pc = "movement"
    /\ width <= VIRTUAL_COLUMNIZED_WIDTH * 4
    /\ pixels' \in VirtualBox_tick(VirtualBox_new(0, width, height, pixels, ltr))
    /\ ltr' = ~ltr
    /\ pc' = "idle"
    /\ op' = TickOp
    /\ UNCHANGED <<width, height, offset, pending, hist, ticks, placed>>

\* rng.gen_range(1..=VIRTUAL_COLUMNIZED_WIDTH * 2) of the thread-local rng.
band_offsets == 1..(VIRTUAL_COLUMNIZED_WIDTH * 2)

\* exec_pixels_movement on a wider grid: sample the offset and split for
\* phase one (split_at_mut panics when the split point is past the end).
MovementSplit ==
    /\ pc = "movement"
    /\ width > VIRTUAL_COLUMNIZED_WIDTH * 4
    /\ \E o \in band_offsets :
          /\ offset' = o
          /\ IF o + VIRTUAL_COLUMNIZED_WIDTH > width
             THEN pc' = "panicked" /\ pending' = {}
             ELSE pc' = "phase1" /\ pending' = phase_one_bands(width, o)
    /\ op' = TickOp
    /\ UNCHANGED <<width, height, pixels, ltr, hist, ticks, placed>>

\* One worker of the current phase resolves its band.
BandTick ==
    /\ pc \in {"phase1", "phase2"}
    /\ \E b \in pending :
          /\ pixels' \in band_tick(height, pixels, ltr, b)
          /\ pending' = pending \ {b}
    /\ op' = TickOp
    /\ UNCHANGED <<width, height, ltr, pc, offset, hist, ticks, placed>>

\* The join after phase one and the split for phase two.
PhaseTwoSplit ==
    /\ pc = "phase1"
    /\ pending = {}
    /\ IF offset + VIRTUAL_COLUMNIZED_WIDTH * 3 > width
       THEN pc' = "panicked" /\ pending' = {}
       ELSE pc' = "phase2" /\ pending' = phase_two_bands(width, offset)
    /\ op' = TickOp
    /\ UNCHANGED <<width, height, pixels, ltr, offset, hist, ticks, placed>>

\* A join after phase two that leaves the scan direction as it was.
FinishMovementNoFlip ==
    /\ pc = "phase2"
    /\ pending = {}
    /\ pixels' = clear_moved(pixels)
    /\ pc' = "idle"
    /\ offset' = 0
    /\ op' = TickOp
    /\ UNCHANGED <<width, height, ltr, pending, hist, ticks, placed>>

\* The join after phase two: clear every moved flag; tick() then flips ltr.
FinishMovement ==
    /\ pc = "phase2"
    /\ pending = {}
    /\ pixels' = clear_moved(pixels)
    /\ ltr' = ~ltr
    /\ pc' = "idle"
    /\ offset' = 0
    /\ op' = TickOp
    /\ UNCHANGED <<width, height, pending, hist, ticks, placed>>

Next ==
    \/ PlacePixel
    \/ PlacePixelForce
    \/ ExecPixelsInteraction
    \/ MovementUnbanded
    \/ MovementSplit
    \/ BandTick
    \/ PhaseTwoSplit
    \/ FinishMovement

Spec == Init /\ [][Next]_vars

(***************************************************************************)
(* The heating scenarios: a 3x3 grid with Rock corners, default Water in   *)
(* the centre and every choice of the centre's four neighbours, ticked by  *)
(* the main loop MaxHeatTicks times.  hist keeps the first grid only.      *)
(***************************************************************************)
HeatNeighbours == {EternalFire, Rock, Ice_default, Void_default, Fire_default}

HeatGrid(up, down, left, right) ==
    placed_all(3, 3, Sandbox_new(3, 3),
               <<<<Rock, <<0, 0>>>>, <<Rock, <<2, 0>>>>, <<Rock, <<0, 2>>>>,
                 <<Rock, <<2, 2>>>>, <<Water_default, <<1, 1>>>>,
                 <<up, <<1, 0>>>>, <<down, <<1, 2>>>>,
                 <<left, <<0, 1>>>>, <<right, <<2, 1>>>>>>)

InitHeat ==
    /\ width = 3
    /\ height = 3
    /\ \E up, down, left, right \in HeatNeighbours :
          pixels = HeatGrid(up, down, left, right)
    /\ ltr = TRUE
    /\ pc = "idle"
    /\ offset = 0
    /\ pending = {}
    /\ op = Op("new", Void_default, <<0, 0>>)
    /\ hist = << >>
    /\ ticks = 0
    /\ placed = 0

\* A tick() that runs the movement pass before the interaction/update pass.
TickMovementFirst ==
    /\ pc = "idle"
    /\ ticks < MaxHeatTicks
    /\ \E q \in VirtualBox_tick(VirtualBox_new(0, width, height, reset_swaps(pixels), ltr)) :
          pixels' = exec_pixels_interaction(width, height, q)
    /\ pc' = "movement"
    /\ hist' = IF hist = << >> THEN <<pixels>> ELSE hist
    /\ ticks' = ticks + 1
    /\ op' = TickOp
    /\ UNCHANGED <<width, height, ltr, offset, pending, placed>>

\* tick() called by the main loop: the interaction/update pass.
TickInteraction ==
    /\ pc = "idle"
    /\ ticks < MaxHeatTicks
    /\ pixels' = reset_swaps(exec_pixels_interaction(width, height, pixels))
    /\ pc' = "movement"
    /\ hist' = IF hist = << >> THEN <<pixels>> ELSE hist
    /\ ticks' = ticks + 1
    /\ op' = TickOp
    /\ UNCHANGED <<width, height, ltr, offset, pending, placed>>

NextHeat ==
    \/ TickInteraction
    \/ MovementUnbanded

\* The main loop calls tick() on every TICK_RATE timeout, so neither pass of
\* a tick stays enabled for ever without running.
SpecHeat ==
    /\ InitHeat
    /\ [][NextHeat]_vars
    /\ WF_vars(TickInteraction)
    /\ WF_vars(MovementUnbanded)

(***************************************************************************)
(* The band partitions: an empty grid of two rows and every width from the *)
(* narrowest banded one to MaxBandWidth, ticked MaxTicks times.            *)
(***************************************************************************)
InitBands ==
    /\ \E w \in WideWidth..MaxBandWidth :
          /\ width = w
          /\ pixels = Sandbox_new(w, 2)
    /\ height = 2
    /\ ltr = TRUE
    /\ pc = "idle"
    /\ offset = 0
    /\ pending = {}
    /\ op = Op("new", Void_default, <<0, 0>>)
    /\ hist = << >>
    /\ ticks = 0
    /\ placed = 0

NextBands ==
    \/ ExecPixelsInteraction
    \/ MovementSplit
    \/ BandTick
    \/ PhaseTwoSplit
    \/ FinishMovement

SpecBands == InitBands /\ [][NextBands]_vars

(***************************************************************************)
(* The seam scenarios: the narrowest banded grid with every choice of      *)
(* Void, Sand, Water and Rock in three cells of columns W-1 and W, which   *)
(* the offset W separates into a phase-one and a phase-two column, and a   *)
(* Sand or nothing at the top of column 2W, a column of phase two.         *)
(***************************************************************************)
SeamMaterials == {Void_default, Sand, Water_default, Rock}

SeamGrid(a, b, c, d) ==
    placed_all(WideWidth, 2, Sandbox_new(WideWidth, 2),
               <<<<a, <<VIRTUAL_COLUMNIZED_WIDTH - 1, 0>>>>,
                 <<b, <<VIRTUAL_COLUMNIZED_WIDTH - 1, 1>>>>,
                 <<c, <<VIRTUAL_COLUMNIZED_WIDTH, 1>>>>,
                 <<d, <<VIRTUAL_COLUMNIZED_WIDTH * 2, 0>>>>>>)

InitSeam ==
    /\ width = WideWidth
    /\ height = 2
    /\ \E a, b, c \in SeamMaterials, d \in {Void_default, Sand} :
          pixels = SeamGrid(a, b, c, d)
    /\ ltr = TRUE
    /\ pc = "idle"
    /\ offset = 0
    /\ pending = {}
    /\ op = Op("new", Void_default, <<0, 0>>)
    /\ hist = << >>
    /\ ticks = 0
    /\ placed = 0

SpecSeam == InitSeam /\ [][NextBands]_vars

(***************************************************************************)
(* The mixed columns: a 3x3 grid whose middle column holds every choice of *)
(* three materials, ticked MaxTicks times.                                 *)
(***************************************************************************)
MixGrid(top, middle, bottom) ==
    placed_all(3, 3, Sandbox_new(3, 3),
               <<<<top, <<1, 0>>>>, <<middle, <<1, 1>>>>, <<bottom, <<1, 2>>>>>>)

InitMix ==
    /\ width = 3
    /\ height = 3
    /\ \E top, middle, bottom \in Materials :
          pixels = MixGrid(top, middle, bottom)
    /\ ltr = TRUE
    /\ pc = "idle"
    /\ offset = 0
    /\ pending = {}
    /\ op = Op("new", Void_default, <<0, 0>>)
    /\ hist = << >>
    /\ ticks = 0
    /\ placed = 0

NextMix ==
    \/ ExecPixelsInteraction
    \/ MovementUnbanded

SpecMix == InitMix /\ [][NextMix]_vars

(***************************************************************************)
(* The wood scenarios: a 3x3 grid with Rock corners, a Wood in the centre  *)
(* that is cold, about to burn or burning, and every choice of its four    *)
(* neighbours among fire, water and rock, ticked MaxTicks times.           *)
(***************************************************************************)
WoodCentres ==
    {Wood_default, [Wood_default EXCEPT !.temp = 80], [Wood_default EXCEPT !.temp = 100]}

WoodNeighbours == {EternalFire, Fire_default, Water_default, Rock}

WoodGrid(centre, up, down, left, right) ==
    placed_all(3, 3, Sandbox_new(3, 3),
               <<<<Rock, <<0, 0>>>>, <<Rock, <<2, 0>>>>, <<Rock, <<0, 2>>>>,
                 <<Rock, <<2, 2>>>>, <<centre, <<1, 1>>>>,
                 <<up, <<1, 0>>>>, <<down, <<1, 2>>>>,
                 <<left, <<0, 1>>>>, <<right, <<2, 1>>>>>>)

InitWood ==
    /\ width = 3
    /\ height = 3
    /\ \E centre \in WoodCentres, up, down, left, right \in WoodNeighbours :
          pixels = WoodGrid(centre, up, down, left, right)
    /\ ltr = TRUE
    /\ pc = "idle"
    /\ offset = 0
    /\ pending = {}
    /\ op = Op("new", Void_default, <<0, 0>>)
    /\ hist = << >>
    /\ ticks = 0
    /\ placed = 0

SpecWood == InitWood /\ [][NextMix]_vars

(***************************************************************************)
(* The calls of the public interface outside tick(), on the initial grids  *)
(* and on the grids one placement makes of them.                           *)
(***************************************************************************)
\* Sandbox::resize: the body is commented out, the call returns at once.
resize(g, w, h) == g

ResizeSizes == {<<2, 2>>, <<3, 3>>, <<4, 5>>, <<5, 2>>, <<WideWidth + 1, 2>>}

Resize ==
    /\ pc = "idle"
    /\ \E s \in ResizeSizes :
          /\ LET g == resize(Grid(width, height, pixels), s[1], s[2])
             IN /\ width' = g.width
                /\ height' = g.height
                /\ pixels' = g.pixels
          /\ op' = Op("resize", Void_default, s)
    /\ UNCHANGED <<ltr, pc, offset, pending, hist, ticks, placed>>

\* The cells a neighbour is looked up from: the corners, the edges and the
\* inner cells next to them.
LookupCords(w, h) == {c \in {0, 1, w - 2, w - 1} \X {0, 1, h - 2, h - 1} :
                        c[1] \in 0..(w - 1) /\ c[2] \in 0..(h - 1)}

GetNeighbourCoordinates ==
    /\ pc = "idle"
    /\ \E c \in LookupCords(width, height), d \in Directions :
          op' = [kind |-> "get_neighbour_coordinates", pixel |-> Void_default,
                 cord |-> c, dir |-> d,
                 result |-> get_neighbour_coordinates(
                               Sandbox_control(width, height, pixels), c, d)]
    /\ UNCHANGED <<width, height, pixels, ltr, pc, offset, pending, hist, ticks, placed>>

NextCalls ==
    \/ PlacePixel
    \/ PlacePixelForce
    \/ Resize

SpecCalls == Init /\ [][NextCalls]_vars

\* The instances legality is asked for: the default of every material and a
\* Wood burnt down to the life at which it turns from Wall to Solid.
SwapInstances == Materials \cup {[Wood_default EXCEPT !.life = 30]}

CanSwapWith ==
    /\ pc = "idle"
    /\ \E i \in SwapInstances, t \in SwapInstances, m \in BOOLEAN :
          op' = [kind |-> "can_swap_with", pixel |-> i, cord |-> <<0, 0>>,
                 target |-> Container(t, m, 0),
                 result |-> can_swap_with(PixelContainer_new(i), Container(t, m, 0))]
    /\ UNCHANGED <<width, height, pixels, ltr, pc, offset, pending, hist, ticks, placed>>

\* The sources a move is asked for on the grids: a solid, a gas and a wall.
MoveSources == {Sand, Steam_default, Rock}

CanMoveToDir ==
    /\ pc = "idle"
    /\ \E i \in MoveSources, c \in LookupCords(width, height), d \in Directions :
          op' = [kind |-> "can_move_to_dir", pixel |-> i, cord |-> c, dir |-> d,
                 result |-> can_move_to_dir(PixelContainer_new(i), c, d,
                                            Sandbox_control(width, height, pixels))]
    /\ UNCHANGED <<width, height, pixels, ltr, pc, offset, pending, hist, ticks, placed>>

\* The queries of SandboxControl and Pixel, asked on the initial grids.
NextQueries ==
    \/ GetNeighbourCoordinates
    \/ CanSwapWith
    \/ CanMoveToDir

SpecQueries == Init /\ [][NextQueries]_vars

(***************************************************************************)
(* Vocabulary of the properties.                                           *)
(***************************************************************************)
Cells(px) == {<<x, y>> : x \in DOMAIN px, y \in DOMAIN px[0]}
At(px, c) == px[c[1]][c[2]]
IsVoid(p) == pixel_type(p.pixel).cat = "Void"
InBounds(c) == c[1] < width /\ c[2] < height
\* The grid's materials alone, without the moved flags and history fields.
MaterialsOf(px) == [x \in DOMAIN px |-> [y \in DOMAIN px[x] |-> px[x][y].pixel]]
Occupancy(px) == Cardinality({c \in Cells(px) : ~IsVoid(At(px, c))})
AllDefaultVoid(px) ==
    \A c \in Cells(px) : At(px, c).pixel = Void_default /\ ~At(px, c).is_moved
InMovement == pc \in {"movement", "phase1", "phase2"}

\* C1: place_pixel on an in-bounds coordinate leaves the whole grid unchanged
\* when the target's category is not Void, and on a Void target makes it hold
\* exactly the placed material, not moved, and changes no other cell.
PlaceNeverOverwrites ==
    [][(op'.kind = "place_pixel" /\ InBounds(op'.cord)) =>
          IF ~IsVoid(At(pixels, op'.cord))
          THEN pixels' = pixels
          ELSE /\ At(pixels', op'.cord).pixel = op'.pixel
               /\ ~At(pixels', op'.cord).is_moved
               /\ \A c \in Cells(pixels) \ {op'.cord} : At(pixels', c) = At(pixels, c)]_vars

\* A place_pixel call was refused: its target still holds another material.
PlaceRefusedWitness ==
    /\ op.kind = "place_pixel"
    /\ InBounds(op.cord)
    /\ ~IsVoid(At(pixels, op.cord))
    /\ At(pixels, op.cord).pixel.name # op.pixel.name

\* C2: place_pixel_force on an in-bounds coordinate makes the target hold
\* exactly the placed material, not moved, whatever it held, and changes no
\* other cell.
PlaceForceOverwrites ==
    [][(op'.kind = "place_pixel_force" /\ InBounds(op'.cord)) =>
          /\ At(pixels', op'.cord).pixel = op'.pixel
          /\ ~At(pixels', op'.cord).is_moved
          /\ \A c \in Cells(pixels) \ {op'.cord} : At(pixels', c) = At(pixels, c)]_vars

\* place_pixel_force(Sand, (1, 1)) replaced the Water of the tick2 fixture.
PlaceForceWitness ==
    /\ op = Op("place_pixel_force", Sand, <<1, 1>>)
    /\ ticks = 0
    /\ MaterialsOf(pixels) =
          MaterialsOf(place_pixel_force(3, 3, Tick2Fixture.pixels, Sand, <<1, 1>>))
    /\ At(pixels, <<1, 0>>).pixel = Sand

\* C3: a step of tick() taken on a grid of default Void cells leaves a grid
\* of default Void cells.
VoidGridStaysVoid ==
    [][(op'.kind = "tick" /\ AllDefaultVoid(pixels)) => AllDefaultVoid(pixels')]_vars

\* Two whole ticks have run on the empty grid.
VoidGridTickedWitness ==
    /\ pc = "idle"
    /\ ticks = MaxTicks
    /\ placed = 0
    /\ AllDefaultVoid(pixels)

\* C4: no step of the movement pass (the whole-grid band, a band of either
\* phase in any order, the splits and the final clearing) changes the number
\* of non-Void cells.
MovementConservesOccupancy ==
    [][InMovement => Occupancy(pixels') = Occupancy(pixels)]_vars

\* A band of the banded path has swapped a material.
BandedSwapWitness ==
    /\ width > VIRTUAL_COLUMNIZED_WIDTH * 4
    /\ pc = "phase2"
    /\ \E c \in Cells(pixels) : ~IsVoid(At(pixels, c)) /\ At(pixels, c).swaps = 1

\* C5 as claimed: k ticks after a grid whose only material is one Sand at
\* (x, y0), the only material is a Sand at (x, min(y0 + k, height - 1)).
SingleSand(px, c) ==
    /\ At(px, c).pixel = Sand
    /\ \A d \in Cells(px) \ {c} : At(px, d).pixel = Void_default

SandDescendsEveryTick ==
    (pc = "idle" /\ hist # << >>) =>
        \A c \in Cells(pixels) :
            SingleSand(hist[1], c) =>
                SingleSand(pixels, <<c[1], Min(c[2] + Len(hist), height - 1)>>)

\* C6 as claimed: when tick() has returned no cell is flagged moved.
MovedNeverPersists ==
    pc = "idle" => \A c \in Cells(pixels) : ~At(pixels, c).is_moved

\* C7: in every state of a movement pass, and after it, every non-Void
\* material has taken part in at most one swap of this tick.
AtMostOneSwapPerTick ==
    \A c \in Cells(pixels) : ~IsVoid(At(pixels, c)) => At(pixels, c).swaps <= 1

\* A source and the material it displaced have both been swapped once.
DisplacedWitness ==
    \E c, d \in Cells(pixels) :
        /\ c # d
        /\ At(pixels, c).pixel = Sand /\ At(pixels, c).swaps = 1
        /\ At(pixels, d).pixel.name = "Water" /\ At(pixels, d).swaps = 1

\* C8: one tick on the tick3 fixture leaves Sand at (1,3) and at (0,2) or
\* (2,2), and Water at (0,3), (1,2) and (2,3).
Tick3Outcome(x) ==
    MaterialsOf(placed_all(3, 4, Sandbox_new(3, 4),
                           <<<<Sand, <<1, 3>>>>, <<Sand, <<x, 2>>>>,
                             <<Water_default, <<0, 3>>>>, <<Water_default, <<1, 2>>>>,
                             <<Water_default, <<2, 3>>>>>>))

Tick3Regression ==
    (pc = "idle" /\ Len(hist) = 1 /\ hist[1] = Tick3Fixture.pixels) =>
        MaterialsOf(pixels) \in {Tick3Outcome(0), Tick3Outcome(2)}

\* The outcome the test asserts: the upper Sand went DownLeft.
Tick3Witness ==
    /\ pc = "idle" /\ Len(hist) = 1 /\ hist[1] = Tick3Fixture.pixels
    /\ MaterialsOf(pixels) = Tick3Outcome(0)

\* C9 as claimed: on the tick2 fixture the first tick leaves Sand at (1,1)
\* and Water at (1,2); the second leaves Sand at (1,2) and Water at (0,2)
\* or (2,2).
Tick2Outcome(sand, water) ==
    MaterialsOf(placed_all(3, 3, Sandbox_new(3, 3),
                           <<<<Sand, sand>>, <<Water_default, water>>>>))

Tick2Regression ==
    (pc = "idle" /\ hist # << >> /\ hist[1] = Tick2Fixture.pixels) =>
        /\ Len(hist) = 1 => MaterialsOf(pixels) = Tick2Outcome(<<1, 1>>, <<1, 2>>)
        /\ Len(hist) = 2 =>
              MaterialsOf(pixels) \in {Tick2Outcome(<<1, 2>>, <<0, 2>>),
                                       Tick2Outcome(<<1, 2>>, <<2, 2>>)}

(***************************************************************************)
(* The cooling scenarios: a 3x3 grid with Rock corners, default Steam in   *)
(* the centre and every choice of Water, Steam, Ice and Rock around it,    *)
(* ticked by the main loop MaxCoolTicks times.                             *)
(***************************************************************************)
CoolNeighbours == {Water_default, Steam_default, Ice_default, Rock}

InitCool ==
    /\ width = 3
    /\ height = 3
    /\ \E up, down, left, right \in CoolNeighbours :
          pixels = WoodGrid(Steam_default, up, down, left, right)
    /\ ltr = TRUE
    /\ pc = "idle"
    /\ offset = 0
    /\ pending = {}
    /\ op = Op("new", Void_default, <<0, 0>>)
    /\ hist = << >>
    /\ ticks = 0
    /\ placed = 0

\* tick() called by the main loop at most max times: the interaction/update
\* pass.  hist keeps the first grid only.
LongTick(max) ==
    /\ pc = "idle"
    /\ ticks < max
    /\ pixels' = reset_swaps(exec_pixels_interaction(width, height, pixels))
    /\ pc' = "movement"
    /\ hist' = IF hist = << >> THEN <<pixels>> ELSE hist
    /\ ticks' = ticks + 1
    /\ op' = TickOp
    /\ UNCHANGED <<width, height, ltr, offset, pending, placed>>

TickCooling == LongTick(MaxCoolTicks)

NextCool ==
    \/ TickCooling
    \/ MovementUnbanded

SpecCool == InitCool /\ [][NextCool]_vars

(***************************************************************************)
(* The melting scenarios: a 3x3 grid with Rock corners, default Ice in the *)
(* centre and every choice of EternalFire, Fire, Water, Steam and Rock     *)
(* around it, ticked by the main loop MaxMeltTicks times.                  *)
(***************************************************************************)
MeltNeighbours == {EternalFire, Fire_default, Water_default, Steam_default, Rock}

InitMelt ==
    /\ width = 3
    /\ height = 3
    /\ \E up, down, left, right \in MeltNeighbours :
          pixels = WoodGrid(Ice_default, up, down, left, right)
    /\ ltr = TRUE
    /\ pc = "idle"
    /\ offset = 0
    /\ pending = {}
    /\ op = Op("new", Void_default, <<0, 0>>)
    /\ hist = << >>
    /\ ticks = 0
    /\ placed = 0

TickMelting == LongTick(MaxMeltTicks)

NextMelt ==
    \/ TickMelting
    \/ MovementUnbanded

\* The main loop calls tick() on every TICK_RATE timeout.
SpecMelt ==
    /\ InitMelt
    /\ [][NextMelt]_vars
    /\ WF_vars(TickMelting)
    /\ WF_vars(MovementUnbanded)

(***************************************************************************)
(* The burning scenarios: a 3x3 grid with Rock corners and Rock at the     *)
(* right, default Wood in the centre, every choice of EternalFire, Water,  *)
(* Ice and Rock above and below it and EternalFire or Rock at its left,    *)
(* ticked by the main loop MaxBurnTicks times.                             *)
(***************************************************************************)
BurnNeighbours == {EternalFire, Water_default, Ice_default, Rock}

InitBurn ==
    /\ width = 3
    /\ height = 3
    /\ \E up, down \in BurnNeighbours, left \in {Rock, EternalFire} :
          pixels = WoodGrid(Wood_default, up, down, left, Rock)
    /\ ltr = TRUE
    /\ pc = "idle"
    /\ offset = 0
    /\ pending = {}
    /\ op = Op("new", Void_default, <<0, 0>>)
    /\ hist = << >>
    /\ ticks = 0
    /\ placed = 0

TickBurning == LongTick(MaxBurnTicks)

NextBurn ==
    \/ TickBurning
    \/ MovementUnbanded

\* The main loop calls tick() on every TICK_RATE timeout.
SpecBurn ==
    /\ InitBurn
    /\ [][NextBurn]_vars
    /\ WF_vars(TickBurning)
    /\ WF_vars(MovementUnbanded)

(***************************************************************************)
(* The spreading scenarios: a 3x3 grid with Rock corners and a body of     *)
(* default Wood: the centre and the cell at its right, and Wood or Rock    *)
(* below; an EternalFire or a Fire above, and Wood, Rock or EternalFire at *)
(* the left.  Ticked by the main loop MaxSpreadTicks times.                *)
(***************************************************************************)
InitSpread ==
    /\ width = 3
    /\ height = 3
    /\ \E up \in {EternalFire, Fire_default}, down \in {Wood_default, Rock},
          left \in {Wood_default, Rock, EternalFire} :
          pixels = WoodGrid(Wood_default, up, down, left, Wood_default)
    /\ ltr = TRUE
    /\ pc = "idle"
    /\ offset = 0
    /\ pending = {}
    /\ op = Op("new", Void_default, <<0, 0>>)
    /\ hist = << >>
    /\ ticks = 0
    /\ placed = 0

TickSpreading == LongTick(MaxSpreadTicks)

NextSpread ==
    \/ TickSpreading
    \/ MovementUnbanded

\* The main loop calls tick() on every TICK_RATE timeout.
SpecSpread ==
    /\ InitSpread
    /\ [][NextSpread]_vars
    /\ WF_vars(TickSpreading)
    /\ WF_vars(MovementUnbanded)

(***************************************************************************)
(* The fire scenarios: a 3x3 grid with a default Fire at the bottom of the *)
(* middle column and every choice of Void, Water, Steam and Rock in the    *)
(* two cells above it, ticked by the main loop MaxFireTicks times.         *)
(***************************************************************************)
FireNeighbours == {Void_default, Water_default, Steam_default, Rock}

InitFire ==
    /\ width = 3
    /\ height = 3
    /\ \E top, middle \in FireNeighbours :
          pixels = MixGrid(top, middle, Fire_default)
    /\ ltr = TRUE
    /\ pc = "idle"
    /\ offset = 0
    /\ pending = {}
    /\ op = Op("new", Void_default, <<0, 0>>)
    /\ hist = << >>
    /\ ticks = 0
    /\ placed = 0

TickFire == LongTick(MaxFireTicks)

NextFire ==
    \/ TickFire
    \/ MovementUnbanded

\* The main loop calls tick() on every TICK_RATE timeout.
SpecFire ==
    /\ InitFire
    /\ [][NextFire]_vars
    /\ WF_vars(TickFire)
    /\ WF_vars(MovementUnbanded)

(***************************************************************************)
(* One cell under every neighbour configuration: the closure of the        *)
(* interaction pass taken call by call on a single instance, held in op.   *)
(* Starting from a default material, up to four interact calls, each with  *)
(* any material or a burning Wood as its target, are followed by update;   *)
(* what update leaves is the instance of the next tick.                    *)
(***************************************************************************)
Targets == Materials \cup {[Wood_default EXCEPT !.temp = 100]}

CellOp(k, before, during, after, n) ==
    [kind |-> k, prev |-> before, self |-> during, pixel |-> after, calls |-> n]

InitCell ==
    /\ width = 3
    /\ height = 3
    /\ pixels = Sandbox_new(3, 3)
    /\ ltr = TRUE
    /\ pc = "idle"
    /\ offset = 0
    /\ pending = {}
    /\ \E m \in Materials : op = CellOp("new", m, m, m, 0)
    /\ hist = << >>
    /\ ticks = 0
    /\ placed = 0

\* pixel.pixel_mut().interact(target) for one neighbour that exists.
InteractCall ==
    /\ op.calls < 4
    /\ \E t \in Targets :
          op' = CellOp("interact", op.pixel, interact(op.pixel, t), interact(op.pixel, t),
                       op.calls + 1)
    /\ UNCHANGED <<width, height, pixels, ltr, pc, offset, pending, hist, ticks, placed>>

\* PixelFundamental::update(pixel.pixel_mut()) and the replacement it asks for.
UpdateCall ==
    /\ LET u == update(op.pixel)
       IN op' = CellOp("update", op.pixel, u.self,
                       IF u.new # None THEN u.new[1] ELSE u.self, 0)
    /\ UNCHANGED <<width, height, pixels, ltr, pc, offset, pending, hist, ticks, placed>>

NextCell ==
    \/ InteractCall
    \/ UpdateCall

SpecCell == InitCell /\ [][NextCell]_vars

\* C10: a default Water that stays orthogonally adjacent to an EternalFire
\* with no Ice neighbour is eventually replaced by default Steam: every
\* interaction pass leaves it a hotter Water below 30 degrees or default
\* Steam; with one EternalFire and Rock as its other neighbours it holds
\* 20 + 2k degrees after pass k < 5 and is default Steam after pass 5; and
\* from the first tick on it boils unless it moved away or lost the premise.
HeatCentre == <<1, 1>>

Orthogonal(px, c) ==
    {d \in Cells(px) : \/ d[1] = c[1] /\ (d[2] = c[2] + 1 \/ c[2] = d[2] + 1)
                       \/ d[2] = c[2] /\ (d[1] = c[1] + 1 \/ c[1] = d[1] + 1)}

Heated(px, c) ==
    /\ At(px, c).pixel.name = "Water"
    /\ \E d \in Orthogonal(px, c) : At(px, d).pixel = EternalFire
    /\ \A d \in Orthogonal(px, c) : At(px, d).pixel.name # "Ice"

OneHeater(px) ==
    /\ At(px, HeatCentre).pixel = Water_default
    /\ \E d \in Orthogonal(px, HeatCentre) :
          /\ At(px, d).pixel = EternalFire
          /\ \A e \in Orthogonal(px, HeatCentre) \ {d} : At(px, e).pixel = Rock

HeatedWaterWarms ==
    [][(pc = "idle" /\ pc' = "movement") =>
          \A c \in Cells(pixels) :
              Heated(pixels, c) =>
                  \/ /\ At(pixels', c).pixel.name = "Water"
                     /\ At(pixels', c).pixel.temp > At(pixels, c).pixel.temp
                     /\ At(pixels', c).pixel.temp < 30
                  \/ At(pixels', c).pixel = Steam_default]_vars

BoilsInFifthPass ==
    (pc = "movement" /\ hist # << >> /\ OneHeater(hist[1])) =>
        /\ ticks < 5 => At(pixels, HeatCentre).pixel =
                            [Water_default EXCEPT !.temp = 20 + 2 * ticks]
        /\ ticks = 5 => At(pixels, HeatCentre).pixel = Steam_default

HeatedWaterBoils ==
    /\ HeatedWaterWarms
    /\ []BoilsInFifthPass
    /\ (pc = "idle" /\ ticks = 0 /\ Heated(pixels, HeatCentre))
          ~> \/ pc = "movement" /\ At(pixels, HeatCentre).pixel = Steam_default
             \/ pc = "idle" /\ ~Heated(pixels, HeatCentre)

\* The fifth pass has just replaced the singly heated Water by Steam.
BoiledWitness ==
    /\ pc = "movement"
    /\ ticks = 5
    /\ hist # << >> /\ OneHeater(hist[1])
    /\ At(pixels, HeatCentre).pixel = Steam_default

\* C11 as claimed: runs that agree on the rng seed and on the placements
\* agree on the grid after every tick.  tick() takes no seed (both schedulers
\* draw from thread_rng()), so agreeing runs are runs from the same grid: the
\* movement pass can leave one grid only (unbanded), and one offset only
\* can be sampled (banded).
SameSeedSameGrid ==
    pc = "movement" =>
        IF width <= VIRTUAL_COLUMNIZED_WIDTH * 4
        THEN Cardinality(VirtualBox_tick(VirtualBox_new(0, width, height, pixels, ltr))) = 1
        ELSE Cardinality(band_offsets) = 1

\* C12: within one tick the interaction/update pass runs to completion first
\* and the movement pass second: the step that leaves idle produces exactly
\* the instances of exec_pixels_interaction on the grid of the tick's start,
\* and the step that returns to idle only moves instances (every instance of
\* the interaction pass is still there, as often as before).
InstanceCount(px, i) == Cardinality({c \in Cells(px) : At(px, c).pixel = i})

InteractionBeforeMovement ==
    [][/\ pc = "idle" =>
            /\ pc' = "movement"
            /\ MaterialsOf(pixels') = MaterialsOf(exec_pixels_interaction(width, height, pixels))
       /\ pc = "movement" =>
            /\ pc' = "idle"
            /\ \A c \in Cells(pixels) :
                  InstanceCount(pixels', At(pixels, c).pixel)
                     = InstanceCount(pixels, At(pixels, c).pixel)]_vars

\* A Fire that the interaction pass of this tick created (its life is still
\* the default) and the movement pass of the same tick moved.
CreatedAndMovedWitness ==
    /\ pc = "idle"
    /\ ticks >= 1
    /\ \E c \in Cells(pixels) :
          At(pixels, c).pixel = Fire_default /\ At(pixels, c).swaps = 1

\* C13 as claimed: after resize(w, h) the grid is exactly w by h; the cell
\* (x, y) of the new grid holds what the old grid held at
\* (x - dw/2, y - dh/2), the halves truncated toward zero, and is Void when
\* that coordinate is outside the old grid.
Half(d) == IF d >= 0 THEN d \div 2 ELSE -((-d) \div 2)

ResizeRecentres ==
    [][op'.kind = "resize" /\ op' # op =>
          LET w == op'.cord[1]
              h == op'.cord[2]
              dx == Half(w - width)
              dy == Half(h - height)
          IN /\ width' = w
             /\ height' = h
             /\ DOMAIN pixels' = 0..(w - 1)
             /\ \A x \in 0..(w - 1) :
                   /\ DOMAIN pixels'[x] = 0..(h - 1)
                   /\ \A y \in 0..(h - 1) :
                         pixels'[x][y].pixel =
                            IF x - dx \in 0..(width - 1) /\ y - dy \in 0..(height - 1)
                            THEN pixels[x - dx][y - dy].pixel
                            ELSE Void_default]_vars

\* C14: a placement, forced or not, on a coordinate with x >= width or
\* y >= height changes no cell and raises no fault; in particular the
\* coordinate (width, 0) does not write the first cell of the next row.
OutOfBoundsPlacementIsNoOp ==
    [][(op'.kind \in {"place_pixel", "place_pixel_force"} /\ ~InBounds(op'.cord)) =>
          /\ pixels' = pixels
          /\ width' = width
          /\ height' = height
          /\ pc' = "idle"]_vars

\* A material was placed, forced, at (width, 0) while the first cell of the
\* next row, (0, 1), was Void, and that cell is still Void.
OutOfBoundsWitness ==
    /\ op.kind = "place_pixel_force"
    /\ op.cord = <<width, 0>>
    /\ ~IsVoid([pixel |-> op.pixel])
    /\ IsVoid(At(pixels, <<0, 1>>))

\* C15: for an in-bounds coordinate and each of the eight directions,
\* get_neighbour_coordinates returns the coordinate one step away when that
\* coordinate is inside the grid and nothing when the step leaves the grid;
\* it never returns a coordinate of another row or column end, and never a
\* coordinate below zero.
StepOf(dir) ==
    <<IF dir \in {"Left", "UpLeft", "DownLeft"} THEN -1
      ELSE IF dir \in {"Right", "UpRight", "DownRight"} THEN 1 ELSE 0,
      IF dir \in {"Up", "UpLeft", "UpRight"} THEN -1
      ELSE IF dir \in {"Down", "DownLeft", "DownRight"} THEN 1 ELSE 0>>

NeighbourLookupEdgeGuarded ==
    op.kind = "get_neighbour_coordinates" =>
        LET t == <<op.cord[1] + StepOf(op.dir)[1], op.cord[2] + StepOf(op.dir)[2]>>
        IN IF t[1] \in 0..(width - 1) /\ t[2] \in 0..(height - 1)
           THEN op.result = Some(t)
           ELSE op.result = None

\* The lookup from the last cell of the first row toward DownRight found
\* nothing, on a grid with a row below.
EdgeLookupWitness ==
    /\ op.kind = "get_neighbour_coordinates"
    /\ op.cord = <<width - 1, 0>>
    /\ op.dir = "DownRight"
    /\ height > 1
    /\ op.result = None

\* C16: a source may move into a neighbour exactly when the neighbour exists,
\* is not flagged moved, the source has a density (it is Gas, Liquid or
\* Solid), and the neighbour is Void or has a density td different from the
\* source's d with d > td for a Liquid or Solid source and d < td for a Gas
\* source; a Wall neighbour and an equal density are never legal.
MoveLegal(i, t) ==
    LET st == pixel_type(i)
        tt == pixel_type(t.pixel)
    IN /\ st.cat \in {"Gas", "Liquid", "Solid"}
       /\ ~t.is_moved
       /\ \/ tt.cat = "Void"
          \/ /\ tt.cat \in {"Gas", "Liquid", "Solid"}
             /\ st.density # tt.density
             /\ IF st.cat = "Gas" THEN st.density < tt.density
                ELSE st.density > tt.density

MoveLegality ==
    /\ op.kind = "can_swap_with" => (op.result <=> MoveLegal(op.pixel, op.target))
    /\ op.kind = "can_move_to_dir" =>
          LET t == <<op.cord[1] + StepOf(op.dir)[1], op.cord[2] + StepOf(op.dir)[2]>>
          IN op.result <=> /\ t[1] \in 0..(width - 1)
                           /\ t[2] \in 0..(height - 1)
                           /\ MoveLegal(op.pixel, At(pixels, t))

\* A Steam may move into the Water beside it: the lighter gas rises through
\* the denser liquid.
GasRisesWitness ==
    /\ op.kind = "can_swap_with"
    /\ op.pixel = Steam_default
    /\ op.target = PixelContainer_new(Water_default)
    /\ op.result

\* C17: a cell whose category is Wall (Rock, Ice, EternalFire, Wood with
\* life above 30) is never moved by the movement pass: after every step of
\* the pass it holds the same container at the same coordinate and has taken
\* part in no swap, neither as the source nor as the destination.
IsWall(p) == pixel_type(p.pixel).cat = "Wall"

WallsNeverMove ==
    [][InMovement =>
          \A c \in Cells(pixels) :
             IsWall(At(pixels, c)) =>
                /\ At(pixels', c).pixel = At(pixels, c).pixel
                /\ At(pixels', c).swaps = 0
                /\ At(pixels', c).is_moved = At(pixels, c).is_moved]_vars

\* A Sand that lay on a Rock slid off it to the bottom corner in the first
\* tick; the Rock is where it was.
SandSlidOffRockWitness ==
    /\ pc = "idle"
    /\ ticks = 1
    /\ At(hist[1], <<1, 1>>).pixel = Sand
    /\ At(pixels, <<1, 2>>).pixel = Rock
    /\ \E x \in {0, 2} : At(pixels, <<x, 2>>).pixel = Sand /\ At(pixels, <<x, 2>>).swaps = 1

\* C18: a cell that holds Void is never flagged moved, in every state during
\* and after the movement pass (and between the calls).
VoidNeverFlagged ==
    \A c \in Cells(pixels) : IsVoid(At(pixels, c)) => ~At(pixels, c).is_moved

\* During the banded movement pass a Void has been the destination of a swap
\* (it now lies where the source was) and a flagged material lies in the
\* grid.
VoidDisplacedWitness ==
    /\ pc \in {"phase1", "phase2"}
    /\ \E c \in Cells(pixels) : IsVoid(At(pixels, c)) /\ At(pixels, c).swaps = 1
    /\ \E c \in Cells(pixels) : At(pixels, c).is_moved /\ At(pixels, c).swaps = 1

\* C19: the interaction/update pass is snapshot-isolated: whatever the order
\* in which the cells are processed, the pass leaves the grid the step
\* leaves, and the new value of a cell depends on its own value and on its
\* Up, Down, Left and Right neighbours before the pass only (replacing any
\* other cell does not change it).
RowMajor(w, h) == [i \in 1..(w * h) |-> <<(i - 1) % w, (i - 1) \div w>>]
ColumnMajor(w, h) == [i \in 1..(w * h) |-> <<(i - 1) \div h, (i - 1) % h>>]
Reversed(s) == [i \in 1..Len(s) |-> s[Len(s) + 1 - i]]
ProcessingOrders(w, h) ==
    {RowMajor(w, h), Reversed(RowMajor(w, h)), ColumnMajor(w, h), Reversed(ColumnMajor(w, h))}

ReadBy(c) == {c, <<c[1], c[2] - 1>>, <<c[1], c[2] + 1>>, <<c[1] - 1, c[2]>>, <<c[1] + 1, c[2]>>}

InteractionSnapshotIsolated ==
    [][pc = "idle" /\ pc' = "movement" =>
          /\ \A order \in ProcessingOrders(width, height) :
                MaterialsOf(interaction_in_order(Sandbox_control(width, height, pixels),
                                                 pixels, order, 1))
                   = MaterialsOf(pixels')
          /\ \A c \in Cells(pixels) : \A e \in Cells(pixels) \ ReadBy(c) :
                \A other \in {Sand, EternalFire} :
                   LET changed == [pixels EXCEPT ![e[1]][e[2]] = PixelContainer_new(other)]
                   IN interaction_cell(Sandbox_control(width, height, changed), changed, c).pixel
                         = At(pixels', c).pixel]_vars

\* The pass turned the Void above an EternalFire into Fire and left the Water
\* above that Void as it was: the Water read the Void, not the new Fire.
SnapshotReadWitness ==
    /\ pc = "movement"
    /\ ticks = 1
    /\ At(hist[1], <<1, 0>>).pixel = Water_default
    /\ At(hist[1], <<1, 1>>).pixel = Void_default
    /\ At(hist[1], <<1, 2>>).pixel = EternalFire
    /\ At(pixels, <<1, 1>>).pixel = Fire_default
    /\ At(pixels, <<1, 0>>).pixel = Water_default

\* C20: in each phase of the banded movement pass the column slices handed
\* to the band workers lie inside the grid and are pairwise disjoint, for
\* every width above 4W and every offset from 1 to 2W, so the workers that
\* are still to run (and so those that run together) share no column.
BandsDisjoint ==
    pc \in {"phase1", "phase2"} =>
        /\ \A b \in pending : 0 <= b.lo /\ b.lo < b.hi /\ b.hi <= width
        /\ \A a, b \in pending : a # b => (a.hi <= b.lo \/ b.hi <= a.lo)

\* Phase one has just split the grid into the offset band and two chunks.
ThreeBandsWitness ==
    /\ pc = "phase1"
    /\ Cardinality(pending) = 3
    /\ pending = phase_one_bands(width, offset)

\* C21 as claimed: for every width above 4W and every offset, each column on
\* or next to an internal boundary of the phase-one slices lies, once phase
\* one is over, in a phase-two slice whose internal boundaries are at least W
\* columns away from it.
SeamColumns(w, o) ==
    LET cuts == {b.hi : b \in {a \in phase_one_bands(w, o) : a.hi < w}}
                  \cup {b.lo : b \in {a \in phase_one_bands(w, o) : a.lo > 0}}
    IN UNION {{x - 1, x} : x \in cuts}

PhaseTwoSlices == IF pc = "phase2" THEN phase_two_bands(width, offset) ELSE {}

SeamCoverage ==
    pc \in {"phase2", "panicked"} =>
        \A c \in SeamColumns(width, offset) :
           \E b \in PhaseTwoSlices :
              /\ b.lo <= c /\ c < b.hi
              /\ b.lo = 0 \/ c - b.lo >= VIRTUAL_COLUMNIZED_WIDTH
              /\ b.hi = width \/ b.hi - c >= VIRTUAL_COLUMNIZED_WIDTH

\* C22 as claimed: tick() is total over the width: a grid of at most 4W
\* columns is resolved by one whole-grid band, and on a wider grid both split
\* points, offset + W and offset + 3W, are at most the width for every sampled
\* offset, so no tick ends in a fault.
TickIsTotal ==
    /\ pc # "panicked"
    /\ pc \in {"phase1", "phase2"} =>
          /\ width > VIRTUAL_COLUMNIZED_WIDTH * 4
          /\ offset + VIRTUAL_COLUMNIZED_WIDTH <= width
          /\ offset + VIRTUAL_COLUMNIZED_WIDTH * 3 <= width

\* C23 as claimed: for every width above 4W and every offset, each column of
\* the grid is a source column (a column VirtualBox::tick scans) of exactly
\* one band of exactly one of the two phases, the trailing partial chunk
\* included: none is scanned twice, none is skipped.
SourceColumns(b) ==
    LET vb == VirtualBox_new(b.off, b.vw, height, slice_of(pixels, b.lo, b.hi), ltr)
    IN {b.lo + scan_cord(vb, i)[1] : i \in 1..(vb.height * vb.virtual_width)}

Scanners(x) ==
    {<<1, b>> : b \in {a \in phase_one_bands(width, offset) : x \in SourceColumns(a)}}
      \cup {<<2, b>> : b \in {a \in PhaseTwoSlices : x \in SourceColumns(a)}}

FullColumnCoverage ==
    pc \in {"phase2", "panicked"} =>
        \A x \in 0..(width - 1) : Cardinality(Scanners(x)) = 1

\* C24: whenever a band scans a source cell, each of the cell's eight
\* neighbours that exists in the full grid exists in the band's slice too, at
\* the same place: the lookup through the band's slice finds the coordinate
\* the lookup through the whole grid finds, for every band still to run.
SourceCells(b) ==
    LET vb == VirtualBox_new(b.off, b.vw, height, slice_of(pixels, b.lo, b.hi), ltr)
    IN {scan_cord(vb, i) : i \in 1..(vb.height * vb.virtual_width)}

NoFalseWalls ==
    pc \in {"phase1", "phase2"} =>
        \A b \in pending : \A c \in SourceCells(b) : \A d \in Directions :
           LET inBand == get_neighbour_coordinates(
                             Control(slice_of(pixels, b.lo, b.hi), b.hi - b.lo, height), c, d)
               inGrid == get_neighbour_coordinates(
                             Sandbox_control(width, height, pixels), <<b.lo + c[1], c[2]>>, d)
           IN IF inGrid = None THEN inBand = None
              ELSE inBand = Some(<<inGrid[1][1] - b.lo, inGrid[1][2]>>)

\* A band of phase one is still to run whose slice touches neither edge of
\* the grid: both of its margins are seams.
InnerBandWitness ==
    /\ pc = "phase1"
    /\ \E b \in pending : b.lo > 0 /\ b.hi < width /\ SourceCells(b) # {}

\* C25 as claimed: every grid a completed banded movement pass leaves is a
\* grid that one whole-grid bottom-up pass over the same start, in the same
\* scan direction, can leave under some choice of the sampled direction lists
\* (the moved flags, which only the banded pass clears, are not compared).
WholeGridOutcomes(start, l) ==
    {MaterialsOf(q) : q \in VirtualBox_tick(VirtualBox_new(0, width, height, start, l))}

BandedPassCompleted ==
    /\ pc = "idle"
    /\ ticks >= 1
    /\ width > VIRTUAL_COLUMNIZED_WIDTH * 4

PassStart == exec_pixels_interaction(width, height, hist[Len(hist)])

EveryCellConsidered ==
    pc \in {"phase2", "panicked"} =>
        \A c \in Cells(pixels) :
           (~IsVoid(At(PassStart, c)) /\ ~At(PassStart, c).is_moved) => Scanners(c[1]) # {}

\* C27: in the interaction/update pass each cell takes one interact call per
\* existing neighbour in the order Up, Down, Left, Right, read from the grid
\* before the pass, and then exactly one update call.
NeighbourInstance(px, c, dir) ==
    LET t == <<c[1] + StepOf(dir)[1], c[2] + StepOf(dir)[2]>>
    IN IF t \in Cells(px) THEN Some(At(px, t).pixel) ELSE None

AfterInteract(i, n) == IF n = None THEN i ELSE interact(i, n[1])

InteractionOrder ==
    [][pc = "idle" /\ pc' = "movement" =>
          \A c \in Cells(pixels) :
             LET a1 == AfterInteract(At(pixels, c).pixel, NeighbourInstance(pixels, c, "Up"))
                 a2 == AfterInteract(a1, NeighbourInstance(pixels, c, "Down"))
                 a3 == AfterInteract(a2, NeighbourInstance(pixels, c, "Left"))
                 a4 == AfterInteract(a3, NeighbourInstance(pixels, c, "Right"))
                 u == update(a4)
             IN At(pixels', c).pixel = IF u.new # None THEN u.new[1] ELSE u.self]_vars

\* A Wood at temp 80 with Fire above, Water below and Rock beside it ended the
\* pass at temp 80, not burning and with its life untouched: the Fire heated
\* it to 100 first and the Water then cooled it.
WoodFireThenWaterWitness ==
    /\ pc = "movement"
    /\ ticks = 1
    /\ hist[1] = WoodGrid([Wood_default EXCEPT !.temp = 80],
                          Fire_default, Water_default, Rock, Rock)
    /\ At(pixels, <<1, 1>>).pixel = [Wood_default EXCEPT !.temp = 80]

\* C28: the scan direction alternates every tick: the first tick scans left
\* to right, each later tick in the direction opposite to the tick before,
\* and the direction does not change inside a tick, so every band of both
\* phases of a tick scans in the same direction.
ScanDirectionAlternates ==
    /\ pc = "idle" => (ltr <=> ticks % 2 = 0)
    /\ pc # "idle" => (ltr <=> ticks % 2 = 1)

\* Two banded ticks have completed: the second scanned right to left and the
\* third will scan left to right again.
TwoBandedTicksWitness ==
    /\ pc = "idle"
    /\ ticks = 2
    /\ width > VIRTUAL_COLUMNIZED_WIDTH * 4
    /\ ltr

\* C29 as claimed: when the cells that are not Void are Sand in consecutive
\* rows of one column, above the bottom row, then after one tick each of them
\* is exactly one row lower in the same column and nothing else has changed.
Occupied(px) == {c \in Cells(px) : ~IsVoid(At(px, c))}

IsSandStack(px) ==
    /\ Occupied(px) # {}
    /\ \A c \in Occupied(px) : At(px, c).pixel = Sand /\ c[2] + 1 < height
    /\ \A c, d \in Occupied(px) :
          /\ c[1] = d[1]
          /\ \A y \in c[2]..d[2] : <<c[1], y>> \in Occupied(px)

StackFallsTogether ==
    (pc = "idle" /\ ticks >= 1 /\ IsSandStack(hist[Len(hist)])) =>
        /\ Occupied(pixels) = {<<c[1], c[2] + 1>> : c \in Occupied(hist[Len(hist)])}
        /\ \A c \in Occupied(pixels) : At(pixels, c).pixel = Sand

\* C30: a Solid moves as a swap source only to the cell below it or to one of
\* the two cells diagonally below, so its row grows by exactly one and its
\* column changes by at most one; whenever the cell directly below is a legal
\* target it moves straight down, whatever list is sampled.
SolidMovesDownward ==
    \A c \in Cells(pixels) :
       pixel_type(At(pixels, c).pixel).cat = "Solid" =>
          LET moves == tick_move(At(pixels, c), c, Sandbox_control(width, height, pixels))
              below == <<c[1], c[2] + 1>>
          IN /\ moves \subseteq
                   {None} \cup {Some(<<c[1] + dx, c[2] + 1>>) : dx \in {-1, 0, 1}}
             /\ (below \in Cells(pixels) /\ MoveLegal(At(pixels, c).pixel, At(pixels, below)))
                   => moves = {Some(below)}

\* A Sand with Void below it and Void at both diagonals fell straight down in
\* the first tick.
SandFellStraightWitness ==
    /\ pc = "idle"
    /\ ticks = 1
    /\ hist[1] = MixGrid(Sand, Void_default, Void_default)
    /\ At(pixels, <<1, 1>>).pixel = Sand
    /\ At(pixels, <<1, 1>>).swaps = 1

\* The cell one step of dir away from c, and whether the instance at c may
\* move there.
Toward(c, dir) == <<c[1] + StepOf(dir)[1], c[2] + StepOf(dir)[2]>>
LegalStep(px, c, dir) ==
    /\ Toward(c, dir) \in Cells(px)
    /\ MoveLegal(At(px, c).pixel, At(px, Toward(c, dir)))

\* C31: a Liquid moves as a swap source only to the cell below, to a cell
\* diagonally below, or to the cell at its left or right, never to a higher
\* row; whenever Down is legal it moves Down whatever list is sampled, and it
\* moves Left or Right only when Down, DownLeft and DownRight are all illegal.
LiquidMovesDownFirst ==
    \A c \in Cells(pixels) :
       pixel_type(At(pixels, c).pixel).cat = "Liquid" =>
          LET moves == tick_move(At(pixels, c), c, Sandbox_control(width, height, pixels))
              downward == {"Down", "DownLeft", "DownRight"}
              sideways == {"Left", "Right"}
          IN /\ moves \subseteq {None} \cup {Some(Toward(c, d)) : d \in downward \cup sideways}
             /\ \A m \in moves : m # None => m[1][2] >= c[2]
             /\ LegalStep(pixels, c, "Down") => moves = {Some(Toward(c, "Down"))}
             /\ (\E d \in sideways : Some(Toward(c, d)) \in moves)
                   => \A d \in downward : ~LegalStep(pixels, c, d)

\* A Water on the bottom row, with nothing below it to move into, moved to
\* the cell at its left in the first tick.
WaterSpreadWitness ==
    /\ pc = "idle"
    /\ ticks = 1
    /\ hist[1] = MixGrid(Void_default, Void_default, Water_default)
    /\ At(pixels, <<0, 2>>).pixel = Water_default
    /\ At(pixels, <<0, 2>>).swaps = 1

WaterInRange ==
    \A c \in Cells(pixels) :
       At(pixels, c).pixel.name = "Water" =>
          At(pixels, c).pixel.temp >= 11 /\ At(pixels, c).pixel.temp <= 29

WaterUpdateStep ==
    (pc = "idle" /\ pc' = "movement") =>
       \A c \in Cells(pixels) :
          At(pixels, c).pixel.name = "Water" =>
             LET after == interact_all(Sandbox_control(width, height, pixels), c,
                                       At(pixels, c).pixel,
                                       <<"Up", "Down", "Left", "Right">>, 1)
             IN At(pixels', c).pixel =
                   IF after.temp >= 30 THEN Steam_default
                   ELSE IF after.temp <= 10 THEN Ice_default
                   ELSE after

WaterThresholds == []WaterInRange /\ [][WaterUpdateStep]_vars

\* A Water with one Ice beside it and Rock around was cooled from 20 by 2 in
\* each pass and was replaced by default Ice in the fifth, on reaching 10.
FrozenAtTenWitness ==
    /\ pc = "movement"
    /\ ticks = 5
    /\ hist # << >>
    /\ hist[1] = HeatGrid(Ice_default, Rock, Rock, Rock)
    /\ At(pixels, HeatCentre).pixel = Ice_default

\* The number of orthogonal neighbours of c whose material is one of names.
Touching(px, c, names) ==
    Cardinality({d \in Orthogonal(px, c) : At(px, d).pixel.name \in names})

\* C34: in the interaction pass a Steam of temp t with k Water or Steam
\* neighbours and i Ice neighbours is cooled to t - k - 2i, or to 0 when
\* that is negative; its update then puts default Water in the cell exactly
\* when the cooled temp is below 10 and otherwise keeps the cooled Steam, so
\* a Steam with no Water, Steam or Ice neighbour stays as it is.
SteamCooling ==
    [][(pc = "idle" /\ pc' = "movement") =>
          \A c \in Cells(pixels) :
             At(pixels, c).pixel.name = "Steam" =>
                LET t == At(pixels, c).pixel.temp
                    drop == Touching(pixels, c, {"Water", "Steam"})
                              + 2 * Touching(pixels, c, {"Ice"})
                    cooled == IF t > drop THEN t - drop ELSE 0
                IN /\ At(pixels', c).pixel =
                         IF cooled < 10 THEN Water_default
                         ELSE [At(pixels, c).pixel EXCEPT !.temp = cooled]
                   /\ drop = 0 => At(pixels', c).pixel = At(pixels, c).pixel]_vars

\* The Steam between four Steams has condensed: it lost 4 degrees in each of
\* 48 passes and was replaced by default Water on falling from 12 to 8.
CondensedWitness ==
    /\ pc = "movement"
    /\ ticks = 48
    /\ hist # << >>
    /\ hist[1] = WoodGrid(Steam_default, Steam_default, Steam_default,
                          Steam_default, Steam_default)
    /\ Cardinality({c \in Cells(pixels) : At(pixels, c).pixel = Water_default}) = 1

\* The degrees a neighbour adds to an Ice that is still below 99.
IceGain(n) ==
    IF n = None THEN 0
    ELSE CASE n[1].name \in {"Fire", "EternalFire"} -> 20
           [] n[1].name = "Water" -> 10
           [] n[1].name = "Steam" -> 15
           [] OTHER -> 0

IceWarmed(t, n) == IF t < 99 THEN t + IceGain(n) ELSE t

IceHeated(px, c) ==
    /\ At(px, c).pixel.name = "Ice"
    /\ Touching(px, c, {"Fire", "EternalFire", "Water", "Steam"}) > 0

\* C35 (each pass): the Up, Down, Left and Right neighbours of an Ice add, in
\* that order and each only while its temp is still below 99, 20 for a Fire
\* or EternalFire, 10 for a Water and 15 for a Steam; update then puts
\* default Water in the cell exactly when the temp is 99 or more.
IceMeltStep ==
    (pc = "idle" /\ pc' = "movement") =>
       \A c \in Cells(pixels) :
          At(pixels, c).pixel.name = "Ice" =>
             LET t1 == IceWarmed(At(pixels, c).pixel.temp, NeighbourInstance(pixels, c, "Up"))
                 t2 == IceWarmed(t1, NeighbourInstance(pixels, c, "Down"))
                 t3 == IceWarmed(t2, NeighbourInstance(pixels, c, "Left"))
                 t4 == IceWarmed(t3, NeighbourInstance(pixels, c, "Right"))
             IN At(pixels', c).pixel =
                   IF t4 >= 99 THEN Water_default
                   ELSE [At(pixels, c).pixel EXCEPT !.temp = t4]

\* C35: every pass warms an Ice as stated, and the Ice in the centre, with
\* a Fire, EternalFire, Water or Steam beside it, is replaced by Water in
\* some pass unless a tick begins with none of them beside it.
IceMelts ==
    /\ [][IceMeltStep]_vars
    /\ (pc = "idle" /\ ticks = 0 /\ IceHeated(pixels, HeatCentre))
          ~> \/ pc = "movement" /\ At(pixels, HeatCentre).pixel = Water_default
             \/ pc = "idle" /\ ~IceHeated(pixels, HeatCentre)

\* The Ice with one Steam beside it and Rock around has melted: 15 degrees in
\* each of seven passes took it to 105.
MeltedWitness ==
    /\ pc = "movement"
    /\ ticks = 7
    /\ hist # << >>
    /\ hist[1] = WoodGrid(Ice_default, Rock, Rock, Steam_default, Rock)
    /\ At(pixels, HeatCentre).pixel = Water_default

\* C36 (each pass): a Wood that starts the tick burning (temp >= 99) with no
\* Water or Ice beside it keeps its temp and loses exactly 1 life, and is
\* replaced by default Void when that takes its life to 0; a Wood that the
\* pass leaves not burning has the life it started the tick with.
WoodBurnStep ==
    (pc = "idle" /\ pc' = "movement") =>
       \A c \in Cells(pixels) :
          At(pixels, c).pixel.name = "Wood" =>
             LET w == At(pixels, c).pixel
                 after == At(pixels', c).pixel
             IN /\ (w.temp >= 99 /\ Touching(pixels, c, {"Water", "Ice"}) = 0) =>
                      after = IF w.life = 1 THEN Void_default
                              ELSE [w EXCEPT !.life = w.life - 1]
                /\ (after.name = "Wood" /\ after.temp < 99) => after.life = w.life
                /\ after.name = "Wood" \/ after = Void_default

\* The Wood lit by one EternalFire: four passes of heating by 20, burning
\* from the fifth pass on, one life lost in each, and Void in pass 229, the
\* 225th in which it burns.
OneFire(px) == px = WoodGrid(Wood_default, EternalFire, Rock, Rock, Rock)

BurnsOutOnTime ==
    (pc = "movement" /\ hist # << >> /\ OneFire(hist[1])) =>
        /\ ticks < 5 => At(pixels, HeatCentre).pixel =
                            [Wood_default EXCEPT !.temp = 20 * ticks]
        /\ (ticks >= 5 /\ ticks < 229) =>
              At(pixels, HeatCentre).pixel =
                  [Wood_default EXCEPT !.temp = 100, !.life = 229 - ticks]
        /\ ticks = 229 => At(pixels, HeatCentre).pixel = Void_default

\* Only walls around the centre, an EternalFire among them.
FedByFire(px) ==
    /\ At(px, HeatCentre).pixel = Wood_default
    /\ Touching(px, HeatCentre, {"EternalFire"}) > 0
    /\ Touching(px, HeatCentre, {"EternalFire", "Rock"}) = 4

\* C36: every pass burns a Wood as stated, the Wood lit by one EternalFire
\* is replaced by Void in the 225th pass in which it burns, and every Wood
\* held between walls with an EternalFire among them ends as Void.
WoodBurnsDown ==
    /\ [][WoodBurnStep]_vars
    /\ []BurnsOutOnTime
    /\ (pc = "idle" /\ ticks = 0 /\ FedByFire(pixels))
          ~> (pc = "movement" /\ At(pixels, HeatCentre).pixel = Void_default)

\* The 229th pass has just replaced the Wood lit by one EternalFire by Void.
BurntOutWitness ==
    /\ pc = "movement"
    /\ ticks = 229
    /\ hist # << >> /\ OneFire(hist[1])
    /\ At(pixels, HeatCentre).pixel = Void_default

\* A cell beside c holds a Fire, an EternalFire or a burning Wood.
Lit(px, c) ==
    \E d \in Orthogonal(px, c) :
       \/ At(px, d).pixel.name \in {"Fire", "EternalFire"}
       \/ At(px, d).pixel.name = "Wood" /\ At(px, d).pixel.temp >= 99

WoodCells(px) == {c \in Cells(px) : At(px, c).pixel.name = "Wood"}

\* C37 (each pass): a Wood below 99 with a Fire, an EternalFire or a burning
\* Wood beside it and no Water or Ice beside it gains at least 20 degrees,
\* so five such passes take a default Wood from 0 to burning.
SpreadStep ==
    (pc = "idle" /\ pc' = "movement") =>
       \A c \in WoodCells(pixels) :
          (/\ At(pixels, c).pixel.temp < 99
           /\ Lit(pixels, c)
           /\ Touching(pixels, c, {"Water", "Ice"}) = 0) =>
             /\ At(pixels', c).pixel.name = "Wood"
             /\ At(pixels', c).pixel.temp >= At(pixels, c).pixel.temp + 20

\* The Wood beside the fire burns from its fifth pass on, and the Wood that
\* only touches that Wood from the fifth pass after that.
SpreadOnTime ==
    (pc = "movement" /\ ticks >= 5) =>
        /\ ticks <= 200 =>
              /\ At(pixels, HeatCentre).pixel.name = "Wood"
              /\ At(pixels, HeatCentre).pixel.temp >= 99
        /\ ticks >= 10 => \A c \in WoodCells(pixels) : At(pixels, c).pixel.temp >= 99

\* C37: every pass heats a lit Wood as stated, the fire crosses from one
\* Wood to the next in five passes, and a body of Wood that touches an
\* EternalFire ends with no Wood left (a burnt-out Wood is replaced by Void).
FireSpreads ==
    /\ [][SpreadStep]_vars
    /\ []SpreadOnTime
    /\ (pc = "idle" /\ ticks = 0 /\ Touching(pixels, HeatCentre, {"EternalFire"}) > 0)
          ~> (WoodCells(pixels) = {})

\* The Wood at the right, which touches only the Wood in the centre, is
\* burning after ten passes: five to light the centre from the EternalFire
\* above it and five to light the Wood beside it.
SpreadWitness ==
    /\ pc = "movement"
    /\ ticks = 10
    /\ hist # << >>
    /\ hist[1] = WoodGrid(Wood_default, EternalFire, Rock, Rock, Wood_default)
    /\ At(pixels, <<2, 1>>).pixel = [Wood_default EXCEPT !.temp = 100, !.life = 224]

FireCells(px) == {c \in Cells(px) : At(px, c).pixel.name = "Fire"}

\* C38 (each pass): a Fire of life l becomes a Fire of life l - 1 in its
\* cell, whatever is beside it, or default Void when l is 1.
FireAgeStep ==
    (pc = "idle" /\ pc' = "movement") =>
       \A c \in FireCells(pixels) :
          At(pixels', c).pixel =
             IF At(pixels, c).pixel.life = 1 THEN Void_default
             ELSE [At(pixels, c).pixel EXCEPT !.life = At(pixels, c).pixel.life - 1]

\* The one Fire of the grid, wherever the movement passes took it, has lost
\* one life per tick started, and is gone once 60 ticks have started; no
\* Fire has life 0.
FireTimeline ==
    /\ \A c \in FireCells(pixels) : At(pixels, c).pixel.life > 0
    /\ ticks < 60 =>
          /\ Cardinality(FireCells(pixels)) = 1
          /\ \A c \in FireCells(pixels) : At(pixels, c).pixel.life = 60 - ticks
    /\ ticks >= 60 => FireCells(pixels) = {}

\* C38: every pass ages a Fire by one whatever its neighbours, a default
\* Fire is replaced by default Void exactly in its 60th tick wherever it
\* moved meanwhile, and a Fire of life 0 never exists.
FireLifetime ==
    /\ [][FireAgeStep]_vars
    /\ []FireTimeline
    /\ (FireCells(pixels) # {}) ~> (FireCells(pixels) = {})

\* The 60th pass has replaced the Fire that started below a Water and a
\* Steam by Void.
FireDiedWitness ==
    /\ pc = "movement"
    /\ ticks = 60
    /\ hist # << >>
    /\ hist[1] = MixGrid(Water_default, Steam_default, Fire_default)
    /\ FireCells(pixels) = {}

\* C39 (each pass): a Void with an EternalFire above, below, left or right
\* of it is replaced by default Fire in that pass, and every other Void,
\* one beside a Fire too, stays default Void.
IgniteStep ==
    (pc = "idle" /\ pc' = "movement") =>
       \A c \in Cells(pixels) :
          At(pixels, c).pixel.name = "Void" =>
             At(pixels', c).pixel =
                IF Touching(pixels, c, {"EternalFire"}) > 0 THEN Fire_default
                ELSE Void_default

\* No Void carries burn = true, between the passes of a tick or after it.
NoBurningVoid ==
    \A c \in Cells(pixels) : At(pixels, c).pixel.name = "Void" => ~At(pixels, c).pixel.burn

\* C39: every pass ignites exactly the Voids beside an EternalFire, in that
\* same pass, so no Void with burn = true is ever in the grid for a swap to
\* carry elsewhere.
VoidIgnition == []NoBurningVoid /\ [][IgniteStep]_vars

\* The first pass has put default Fire in the Void left of the EternalFire
\* and has left the Void beside the Fire below it Void.
IgnitedWitness ==
    /\ pc = "movement"
    /\ ticks = 1
    /\ hist[1] = MixGrid(Void_default, EternalFire, Fire_default)
    /\ At(pixels, <<0, 1>>).pixel = Fire_default
    /\ At(pixels, <<0, 2>>).pixel = Void_default

\* C40: no interact or update call wraps an 8-bit field.  A call changes
\* temp by -30, -20, -2, -1, 0, +2, +10, +15 or +20 and life by -1 or 0; a
\* result that wrapped is off by 256, so a call has not wrapped exactly when
\* temp moved by at most 30 and life by at most 1.  Every field of every
\* instance reached from the default materials, under every choice of up to
\* four targets per tick, is within 0 .. 255 and was reached without a wrap.
NoFieldWraps ==
    /\ op.pixel.temp \in 0..255 /\ op.pixel.life \in 0..255
    /\ op.self.temp \in 0..255 /\ op.self.life \in 0..255
    /\ op.kind \in {"interact", "update"} =>
          /\ op.self.name = op.prev.name
          /\ op.self.temp - op.prev.temp \in (-30)..20
          /\ op.self.life - op.prev.life \in (-1)..0

\* The last update of a Fire took its life from 1 to 0, the lowest value a
\* field reaches, and replaced it by Void.
FireLifeEndsAtZeroWitness ==
    /\ op.kind = "update"
    /\ op.prev = [Fire_default EXCEPT !.life = 1]
    /\ op.self.life = 0
    /\ op.pixel = Void_default

====
